---- MODULE Spec2Model ----
(***************************************************************************)
(* tls.page: key-pinned hostnames, the certificate cache, the ACME DNS-01  *)
(* orchestrator and the HTTPS API that drives them.                        *)
(***************************************************************************)
EXTENDS Integers, Sequences, FiniteSets, TLC

VARIABLES
    pin,        \* the pinning functions applied to one drawn input (SpecPin)
    now,        \* wall clock, Unix seconds
    cache,      \* table certs: subject -> [csr, cert, expiry]
    validation, \* table validation_records: qname -> [value, created]
    req,        \* the in-flight RequestCert calls, one per HTTP request
    orders,     \* the CA: number of orders opened so far
    budget,     \* what one run of the model may still do: slots, faults, reqs, keys
    call,       \* the last call on the cert cache and the table before it (SpecCache)
    StaticRecords, \* DNSBackend.StaticRecords: qname -> the RRs of the zone
    dnsCall,    \* the last call on the DNS backend and the state before it (SpecDNS)
    proc,       \* the signal goroutine, ProcessShutdownHandlers and the dqlite app
    cluster,    \* the dqlite cluster, its cleanup passes and the removals made
    fs          \* sqlitefs: the files table and the open File handles

vars ==
    <<pin, now, cache, validation, req, orders, budget, call, StaticRecords, dnsCall,
      proc, cluster, fs>>

(***************************************************************************)
(* Values                                                                  *)
(***************************************************************************)

\* ECDSA P-256 private keys, by name.
PrivKeys == {"priv1", "priv2"}

\* privKey.Public()
PublicKey(priv) == CASE priv = "priv1" -> "pub1"
                     [] priv = "priv2" -> "pub2"

PubKeys == {PublicKey(k) : k \in PrivKeys}

\* hex(sha256(MarshalPKIXPublicKey(pub))): 64 lower-case hex characters
Sha256Hex(pub) ==
    CASE pub = "pub1" -> "9b7d8f4b4f45183149c1b666d08d1f8cbfcd0704a087908e509c39b1c2b98cc5"
      [] pub = "pub2" -> "3e1f00aa5c2d4b6e8f7a9c0d1b2e3f4a5b6c7d8e9f0a1b2c3d4e5f6a7b8c9d0e"

\* const Origin
Origin == "tls.page"

\* origins a client may compute a name for
Origins == {Origin, "example.com"}

Ok(v) == [ok |-> TRUE, val |-> v]
Err(e) == [ok |-> FALSE, err |-> e]

(***************************************************************************)
(* Client library: Hostname, GenerateCSR                                   *)
(***************************************************************************)

\* A PEM private key as posted by a client.
KeyPEM(priv) == [fmt |-> "pem", type |-> "PRIVATE KEY", alg |-> "ecdsa", priv |-> priv]

KeyInputs ==
    {KeyPEM(k) : k \in PrivKeys}
    \cup {[fmt |-> "junk"],
          [fmt |-> "pem", type |-> "PRIVATE KEY", alg |-> "rsa", priv |-> "rsa1"],
          [fmt |-> "pem", type |-> "EC PRIVATE KEY", alg |-> "sec1", priv |-> "priv1"]}

parsePrivateKey(privKeyPEM) ==
    IF privKeyPEM.fmt # "pem"
    THEN Err("failed to decode PEM private key")
    ELSE IF privKeyPEM.alg = "sec1"
    THEN Err("failed to parse private key")
    ELSE IF privKeyPEM.alg # "ecdsa"
    THEN Err("private key is not ECDSA")
    ELSE Ok(privKeyPEM.priv)

\* mutant: the two labels are cut at 16/48 instead of 32/32
HostnameSplit16(privKeyPEM, origin) ==
    LET k == parsePrivateKey(privKeyPEM) IN
    IF ~k.ok THEN Err("failed to parse private key")
    ELSE LET fingerprint == Sha256Hex(PublicKey(k.val)) IN
         Ok(SubSeq(fingerprint, 1, 16) \o "." \o SubSeq(fingerprint, 17, 64)
            \o "." \o origin)

\* mutant: the first half of the fingerprint is used for both labels
HostnameFirstHalf(privKeyPEM, origin) ==
    LET k == parsePrivateKey(privKeyPEM) IN
    IF ~k.ok THEN Err("failed to parse private key")
    ELSE LET fingerprint == Sha256Hex(PublicKey(k.val)) IN
         Ok(SubSeq(fingerprint, 1, 32) \o "." \o SubSeq(fingerprint, 1, 32)
            \o "." \o origin)

Hostname(privKeyPEM, origin) ==
    LET k == parsePrivateKey(privKeyPEM) IN
    IF ~k.ok THEN Err("failed to parse private key")
    ELSE LET fingerprint == Sha256Hex(PublicKey(k.val)) IN
         Ok(SubSeq(fingerprint, 1, 32) \o "." \o SubSeq(fingerprint, 33, 64)
            \o "." \o origin)

\* The randomness of an ECDSA signature: two CSRs of one key differ in it.
Sigs == {1, 2}

\* A parsed certificate request.
CSR(pub, cn, dns, email, ip, uri, sig) ==
    [pub |-> pub, cn |-> cn, dns |-> dns, email |-> email, ip |-> ip,
     uri |-> uri, sig |-> sig]

DER(csr) == [fmt |-> "der-csr", csr |-> csr]
PEM(type, bytes) == [fmt |-> "pem", type |-> type, bytes |-> bytes]

\* GenerateCSR: DNSNames = {"*." + hostname}, PEM block CERTIFICATE REQUEST
GenerateCSR(privKeyPEM, hostname, sig) ==
    LET k == parsePrivateKey(privKeyPEM) IN
    IF ~k.ok THEN Err("failed to parse private key")
    ELSE Ok(PEM("CERTIFICATE REQUEST",
                DER(CSR(PublicKey(k.val), "", <<"*." \o hostname>>,
                        <<>>, <<>>, <<>>, sig))))

\* pem.Decode: the first block's bytes, or nil
PemDecode(data) ==
    IF data.fmt = "pem" THEN Ok(data.bytes) ELSE Err("no PEM block")

\* bytes.Contains(data, "----")
ContainsDashes(data) == data.fmt \in {"pem", "badpem"}

(***************************************************************************)
(* Server: getCSRNames, CSRPinnedBaseName                                  *)
(***************************************************************************)

\* net.IP.String()
IPString(ip) == CASE ip = "ip4" -> "192.0.2.1"
                  [] ip = "ip6" -> "2001:db8::1"

RECURSIVE MapIPString(_)
MapIPString(ips) ==
    IF ips = <<>> THEN <<>>
    ELSE <<IPString(Head(ips))>> \o MapIPString(Tail(ips))

\* mutant: URI SANs are not collected
getCSRNamesNoURI(csr) ==
    (IF Len(csr.cn) > 0 THEN <<csr.cn>> ELSE <<>>)
    \o csr.dns \o csr.email \o MapIPString(csr.ip)

getCSRNames(csr) ==
    (IF Len(csr.cn) > 0 THEN <<csr.cn>> ELSE <<>>)
    \o csr.dns \o csr.email \o MapIPString(csr.ip) \o csr.uri

\* x509.ParseCertificateRequest
ParseCertificateRequest(csrData) ==
    IF csrData.fmt = "der-csr" THEN Ok(csrData.csr) ELSE Err("failed to parse CSR")

\* mutant: the base name is read off the first name, the key is not consulted
CSRPinnedBaseNameFirstName(csrData, origin) ==
    LET p == ParseCertificateRequest(csrData) IN
    IF ~p.ok THEN Err("failed to parse CSR")
    ELSE
      LET names == getCSRNames(p.val)
          bad == {i \in 1..Len(names) : names[i] # names[1]}
      IN  IF bad # {}
          THEN Err("CSR does not match expected hostname: " \o
                   names[CHOOSE i \in bad : \A j \in bad : i <= j])
          ELSE IF Len(names) = 0
          THEN Err("CSR does not contain any names")
          ELSE Ok(SubSeq(names[1], 3, Len(names[1]) - Len(origin) - 1)
                  \o "." \o origin)

CSRPinnedBaseName(csrData, origin) ==
    LET p == ParseCertificateRequest(csrData) IN
    IF ~p.ok THEN Err("failed to parse CSR")
    ELSE
      LET csr == p.val
          fingerprint == Sha256Hex(csr.pub)
          baseName == SubSeq(fingerprint, 1, 32) \o "." \o
                      SubSeq(fingerprint, 33, 64) \o "." \o origin
          expected == "*." \o baseName
          names == getCSRNames(csr)
          bad == {i \in 1..Len(names) : names[i] # expected}
      IN  IF bad # {}
          THEN Err("CSR does not match expected hostname: " \o
                   names[CHOOSE i \in bad : \A j \in bad : i <= j])
          ELSE IF Len(names) = 0
          THEN Err("CSR does not contain any names")
          ELSE Ok(baseName)

(***************************************************************************)
(* Time                                                                    *)
(***************************************************************************)

\* seconds
Day == 24 * 60 * 60

\* the clock when the server starts
BootTime == 30 * Day

\* MinLife: 60 * 24 * time.Hour
MinLife == 60 * Day

\* time.Time{}: the year 1, far before the epoch
ZeroTime == 0 - 1000000000

\* time.Until(t) at clock n
Until(t, n) == t - n

(***************************************************************************)
(* CertCache: table certs (subject PRIMARY KEY, csr, cert NULL, expiry 0)  *)
(***************************************************************************)

NilBytes == [fmt |-> "nil"]
EmptyTable == [x \in {} |-> NilBytes]

\* INSERT OR REPLACE of one row
Upsert(table, key, row) ==
    [x \in DOMAIN table \cup {key} |-> IF x = key THEN row ELSE table[x]]

\* mutant: sql.ErrNoRows is handed to the caller like any other error
GetNoRowsIsError(table, subject) ==
    IF subject \in DOMAIN table
    THEN [csr |-> table[subject].csr, cert |-> table[subject].cert,
          expiry |-> table[subject].expiry, err |-> ""]
    ELSE [csr |-> NilBytes, cert |-> NilBytes, expiry |-> ZeroTime,
          err |-> "sql: no rows in result set"]

\* CertCache.Get: (csr, cert, expiry, err); no row gives zero values and no error
Get(table, subject) ==
    IF subject \in DOMAIN table
    THEN [csr |-> table[subject].csr, cert |-> table[subject].cert,
          expiry |-> table[subject].expiry, err |-> ""]
    ELSE [csr |-> NilBytes, cert |-> NilBytes, expiry |-> ZeroTime, err |-> ""]

\* x509.ParseCertificate
ParseCertificate(der) ==
    IF der.fmt = "der-cert" THEN Ok(der.cert) ELSE Err("failed to parse certificate")

\* mutant: a leaf without a CN is refused, its DNS SANs are not looked at
PutCNOnly(table, csr, cert) ==
    LET block == PemDecode(cert) IN
    IF ~block.ok THEN [err |-> "failed to decode PEM certificate", table |-> table]
    ELSE LET c == ParseCertificate(block.val) IN
         IF ~c.ok THEN [err |-> "failed to parse certificate", table |-> table]
         ELSE IF c.val.cn # ""
         THEN [err |-> "",
               table |-> Upsert(table, c.val.cn,
                                [csr |-> csr, cert |-> cert, expiry |-> c.val.notAfter])]
         ELSE [err |-> "no common name or DNS names found in certificate",
               table |-> table]

\* CertCache.Put: the row is keyed by the leaf's CN, else its first DNS SAN
Put(table, csr, cert) ==
    LET block == PemDecode(cert) IN
    IF ~block.ok THEN [err |-> "failed to decode PEM certificate", table |-> table]
    ELSE LET c == ParseCertificate(block.val) IN
         IF ~c.ok THEN [err |-> "failed to parse certificate", table |-> table]
         ELSE IF c.val.cn # ""
         THEN [err |-> "",
               table |-> Upsert(table, c.val.cn,
                                [csr |-> csr, cert |-> cert, expiry |-> c.val.notAfter])]
         ELSE IF Len(c.val.dns) > 0
         THEN [err |-> "",
               table |-> Upsert(table, c.val.dns[1],
                                [csr |-> csr, cert |-> cert, expiry |-> c.val.notAfter])]
         ELSE [err |-> "no common name or DNS names found in certificate",
               table |-> table]

\* mutant: the INSERT fills the cert column with the CSR
PutCSRWithCert(table, csr, origin) ==
    LET block == PemDecode(csr)
        der == IF ContainsDashes(csr) /\ block.ok THEN block.val ELSE csr
        baseName == CSRPinnedBaseName(der, origin)
    IN  IF ContainsDashes(csr) /\ ~block.ok
        THEN [err |-> "failed to decode PEM CSR", table |-> table]
        ELSE IF ~baseName.ok
        THEN [err |-> "failed to get pinned base name", table |-> table]
        ELSE IF "*." \o baseName.val \in DOMAIN table
        THEN [err |-> "", table |-> table]
        ELSE [err |-> "",
              table |-> Upsert(table, "*." \o baseName.val,
                               [csr |-> der, cert |-> der, expiry |-> 0])]

\* mutant: INSERT OR REPLACE instead of INSERT OR IGNORE
PutCSRReplace(table, csr, origin) ==
    LET block == PemDecode(csr)
        der == IF ContainsDashes(csr) /\ block.ok THEN block.val ELSE csr
        baseName == CSRPinnedBaseName(der, origin)
    IN  IF ContainsDashes(csr) /\ ~block.ok
        THEN [err |-> "failed to decode PEM CSR", table |-> table]
        ELSE IF ~baseName.ok
        THEN [err |-> "failed to get pinned base name", table |-> table]
        ELSE [err |-> "",
              table |-> Upsert(table, "*." \o baseName.val,
                               [csr |-> der, cert |-> NilBytes, expiry |-> 0])]

\* mutant: the row is keyed by the CSR's own bytes, not by its pinned name
PutCSRKeyedByCSR(table, csr, origin) ==
    LET block == PemDecode(csr)
        der == IF ContainsDashes(csr) /\ block.ok THEN block.val ELSE csr
        baseName == CSRPinnedBaseName(der, origin)
        subject == IF der.csr.sig = 1 THEN "*." \o baseName.val
                   ELSE "*." \o baseName.val \o "#"
    IN  IF ContainsDashes(csr) /\ ~block.ok
        THEN [err |-> "failed to decode PEM CSR", table |-> table]
        ELSE IF ~baseName.ok
        THEN [err |-> "failed to get pinned base name", table |-> table]
        ELSE IF subject \in DOMAIN table
        THEN [err |-> "", table |-> table]
        ELSE [err |-> "",
              table |-> Upsert(table, subject,
                               [csr |-> der, cert |-> NilBytes, expiry |-> 0])]

\* CertCache.PutCSR: INSERT OR IGNORE INTO certs (subject, csr)
PutCSR(table, csr, origin) ==
    LET block == PemDecode(csr)
        der == IF ContainsDashes(csr) /\ block.ok THEN block.val ELSE csr
        baseName == CSRPinnedBaseName(der, origin)
    IN  IF ContainsDashes(csr) /\ ~block.ok
        THEN [err |-> "failed to decode PEM CSR", table |-> table]
        ELSE IF ~baseName.ok
        THEN [err |-> "failed to get pinned base name", table |-> table]
        ELSE IF "*." \o baseName.val \in DOMAIN table
        THEN [err |-> "", table |-> table]
        ELSE [err |-> "",
              table |-> Upsert(table, "*." \o baseName.val,
                               [csr |-> der, cert |-> NilBytes, expiry |-> 0])]

\* CertCache.PutKey: Hostname, GenerateCSR, PutCSR
PutKey(table, key, origin, sig) ==
    LET hostname == Hostname(key, origin) IN
    IF ~hostname.ok
    THEN [err |-> "failed to get hostname from key", table |-> table]
    ELSE LET csr == GenerateCSR(key, hostname.val, sig) IN
         IF ~csr.ok THEN [err |-> "failed to generate CSR", table |-> table]
         ELSE PutCSR(table, csr.val, origin)


(***************************************************************************)
(* The CA, as the ACME client sees it                                       *)
(***************************************************************************)

\* lifetime of an issued leaf
CertLife == 90 * Day

\* authorizations the CA may list in one order
MaxAuthz == 1

\* orders the CA opens in one run of the model
MaxOrders == 2

\* store, CA and client failures injected in one run of the model
MaxFaults == 3

\* failures injected in one run of the model while requests run side by side
MaxRaceFaults == 1

\* the DER chain CreateOrderCert returns: the leaf, then the intermediate
CAChain(ident, csr, serial, n) ==
    << [fmt |-> "der-cert",
        cert |-> [cn |-> ident, dns |-> <<ident>>,
                  notAfter |-> n + CertLife, serial |-> serial, pub |-> csr.csr.pub]],
       [fmt |-> "der-cert",
        cert |-> [cn |-> "CA", dns |-> <<>>, notAfter |-> n + 10 * CertLife,
                  serial |-> 0, pub |-> "ca"]] >>

\* pem.EncodeToMemory of every certificate, appended
EncodeChain(certs) ==
    IF certs = <<>> THEN NilBytes
    ELSE [fmt |-> "pem", type |-> "CERTIFICATE", bytes |-> certs[1],
          rest |-> Tail(certs)]

\* DNS01ChallengeRecord(challenge.Token) of authorization k of order o
ChallengeKey(o, k) == [o |-> o, k |-> k]

(***************************************************************************)
(* DNSBackend: table validation_records (qname PRIMARY KEY, value, created)*)
(***************************************************************************)

\* 10 * 60 seconds
ValidationTTL == 10 * 60

\* mutant: the DELETE is left out
SetValidationRecordNoGC(table, qname, value, n) ==
    Upsert(table, qname, [value |-> value, created |-> n])

\* SetValidationRecord: INSERT OR REPLACE; DELETE WHERE created < now - 10 min
SetValidationRecord(table, qname, value, n) ==
    LET put == Upsert(table, qname, [value |-> value, created |-> n])
        keep == {q \in DOMAIN put : ~(put[q].created < n - ValidationTTL)}
    IN  [q \in keep |-> put[q]]

NoValue == [o |-> 0, k |-> 0]

\* GetValidationRecord: the value, or "" when there is no row
GetValidationRecord(table, qname) ==
    IF qname \in DOMAIN table THEN table[qname].value ELSE NoValue

(***************************************************************************)
(* Strings, as the Go standard library handles them                        *)
(***************************************************************************)

\* strings.HasPrefix
HasPrefix(s, prefix) ==
    Len(s) >= Len(prefix) /\ SubSeq(s, 1, Len(prefix)) = prefix

\* strings.IndexByte from position i on: the position, or 0
RECURSIVE IndexFrom(_, _, _)
IndexFrom(s, sep, i) ==
    IF i > Len(s) THEN 0
    ELSE IF SubSeq(s, i, i) = sep THEN i
    ELSE IndexFrom(s, sep, i + 1)

\* strings.Split(s, sep) for a one-byte sep
RECURSIVE Split(_, _)
Split(s, sep) ==
    LET i == IndexFrom(s, sep, 1) IN
    IF i = 0 THEN <<s>>
    ELSE <<SubSeq(s, 1, i - 1)>> \o Split(SubSeq(s, i + 1, Len(s)), sep)

\* strings.Join(parts, sep)
RECURSIVE Join(_, _)
Join(parts, sep) ==
    IF parts = <<>> THEN ""
    ELSE IF Len(parts) = 1 THEN parts[1]
    ELSE parts[1] \o sep \o Join(Tail(parts), sep)

\* strings.ReplaceAll(s, old, new) for one-byte old and new
RECURSIVE ReplaceAll(_, _, _)
ReplaceAll(s, old, new) ==
    IF s = "" THEN ""
    ELSE (IF SubSeq(s, 1, 1) = old THEN new ELSE SubSeq(s, 1, 1))
         \o ReplaceAll(SubSeq(s, 2, Len(s)), old, new)

\* every byte of s is in the class
AllIn(s, class) == \A i \in 1..Len(s) : SubSeq(s, i, i) \in class

DecChars == {"0", "1", "2", "3", "4", "5", "6", "7", "8", "9"}
HexChars == DecChars \cup {"a", "b", "c", "d", "e", "f"}
UpperChars == "ABCDEFGHIJKLMNOPQRSTUVWXYZ"
LowerChars == "abcdefghijklmnopqrstuvwxyz"
UpperSet == {SubSeq(UpperChars, i, i) : i \in 1..26}

\* the value of one digit
DigitVal(c) == CHOOSE v \in 0..15 : SubSeq("0123456789abcdef", v + 1, v + 1) = c

\* the value of a string of digits in the given base
RECURSIVE NumVal(_, _)
NumVal(s, base) ==
    IF s = "" THEN 0
    ELSE NumVal(SubSeq(s, 1, Len(s) - 1), base) * base
         + DigitVal(SubSeq(s, Len(s), Len(s)))

\* strings.ToLower: a string with no upper-case letter is returned as it is
RECURSIVE ToLower(_)
ToLower(s) ==
    IF \A i \in 1..Len(s) : SubSeq(s, i, i) \notin UpperSet THEN s
    ELSE LET c == SubSeq(s, 1, 1) IN
         (IF c \in UpperSet
          THEN LET i == CHOOSE i \in 1..26 : SubSeq(UpperChars, i, i) = c
               IN  SubSeq(LowerChars, i, i)
          ELSE c)
         \o ToLower(SubSeq(s, 2, Len(s)))

\* dns.CanonicalName: strings.ToLower(dns.Fqdn(s))
CanonicalName(s) ==
    ToLower(IF Len(s) > 0 /\ SubSeq(s, Len(s), Len(s)) = "." THEN s ELSE s \o ".")

(***************************************************************************)
(* net.ParseIP: an address is its eight 16-bit groups                      *)
(***************************************************************************)

\* netip.parseIPv4: four decimal fields, none above 255 or with a leading zero
parseIPv4(s) ==
    LET f == Split(s, ".") IN
    IF Len(f) # 4 THEN Err("IPv4 address too short or too long")
    ELSE IF \E i \in 1..4 :
               \/ Len(f[i]) = 0
               \/ ~AllIn(f[i], DecChars)
               \/ (Len(f[i]) > 1 /\ SubSeq(f[i], 1, 1) = "0")
               \/ Len(f[i]) > 3
               \/ NumVal(f[i], 10) > 255
    THEN Err("bad IPv4 field")
    ELSE Ok(<<0, 0, 0, 0, 0, 65535,
              NumVal(f[1], 10) * 256 + NumVal(f[2], 10),
              NumVal(f[3], 10) * 256 + NumVal(f[4], 10)>>)

\* the position of the first "::" in s, or 0
RECURSIVE EllipsisFrom(_, _)
EllipsisFrom(s, i) ==
    IF i + 1 > Len(s) THEN 0
    ELSE IF SubSeq(s, i, i + 1) = "::" THEN i
    ELSE EllipsisFrom(s, i + 1)

\* the hex groups of one side of an address; "" has none
Groups(s) == IF s = "" THEN <<>> ELSE Split(s, ":")

\* every group has one to four hex digits
GroupsOK(g) ==
    \A i \in 1..Len(g) : Len(g[i]) \in 1..4 /\ AllIn(g[i], HexChars)

\* netip.parseIPv6 on a string without zone or dotted tail
parseIPv6(s) ==
    LET e == EllipsisFrom(s, 1)
        left == Groups(IF e = 0 THEN s ELSE SubSeq(s, 1, e - 1))
        right == Groups(IF e = 0 THEN "" ELSE SubSeq(s, e + 2, Len(s)))
        n == Len(left) + Len(right)
    IN  IF ~GroupsOK(left) \/ ~GroupsOK(right) THEN Err("bad IPv6 group")
        ELSE IF e = 0 /\ n # 8 THEN Err("address string too short or too long")
        ELSE IF e # 0 /\ n > 7 THEN Err("the :: must expand to at least one field")
        ELSE Ok([i \in 1..Len(left) |-> NumVal(left[i], 16)]
                \o [i \in 1..(8 - n) |-> 0]
                \o [i \in 1..Len(right) |-> NumVal(right[i], 16)])

\* net.ParseIP: the first '.' or ':' decides which parser runs
ParseIP(s) ==
    LET dot == IndexFrom(s, ".", 1)
        colon == IndexFrom(s, ":", 1)
    IN  IF dot # 0 /\ (colon = 0 \/ dot < colon) THEN parseIPv4(s)
        ELSE IF colon # 0 THEN parseIPv6(s)
        ELSE Err("unable to parse IP")

\* IP.To4: the four bytes of an IPv4 or IPv4-mapped address, else nil
To4(ip) ==
    IF SubSeq(ip, 1, 6) = <<0, 0, 0, 0, 0, 65535>>
    THEN <<ip[7] \div 256, ip[7] % 256, ip[8] \div 256, ip[8] % 256>>
    ELSE <<>>

\* IP.To16
To16(ip) == ip

(***************************************************************************)
(* DNSBackend: the zone and Lookup                                         *)
(***************************************************************************)

\* a resource record: dns.RR_Header and the record's data
RR(name, rrtype, ttl, data) ==
    [name |-> name, rrtype |-> rrtype, ttl |-> ttl, data |-> data]

\* 30 * 24 * 60 * 60
SynthTTL == 30 * 24 * 60 * 60

\* parser.SetDefaultTTL(5 * 60)
DefaultTTL == 5 * 60

\* append one RR to the list kept under its owner name
AppendRR(static, name, rr) ==
    [x \in DOMAIN static \cup {name} |->
        IF x = name
        THEN (IF name \in DOMAIN static THEN static[name] ELSE <<>>) \o <<rr>>
        ELSE static[x]]

\* NewDNSBackend: staticRecords[name] = append(staticRecords[name], rr)
RECURSIVE NewDNSBackend(_)
NewDNSBackend(zoneFile) ==
    IF zoneFile = <<>> THEN [x \in {} |-> <<>>]
    ELSE LET rr == zoneFile[Len(zoneFile)] IN
         AppendRR(NewDNSBackend(SubSeq(zoneFile, 1, Len(zoneFile) - 1)), rr.name, rr)

\* DNSBackend.SetCAA
SetCAA(static, origin, caDomain) ==
    LET a == AppendRR(static, origin \o ".",
                      RR(origin \o ".", "CAA", DefaultTTL, <<128, "issue", caDomain>>))
        b == AppendRR(a, "*." \o origin \o ".",
                      RR("*." \o origin \o ".", "CAA", DefaultTTL, <<128, "issue", ";">>))
    IN  AppendRR(b, "*." \o origin \o ".",
                 RR("*." \o origin \o ".", "CAA", DefaultTTL,
                    <<128, "issuewild", caDomain>>))

\* DNSBackend.GoServeDNS: CDNSKEY and CDS are added at the origin
GoServeDNS(static, origin) ==
    AppendRR(AppendRR(static, origin \o ".",
                      RR(origin \o ".", "CDNSKEY", DefaultTTL, <<"zsk">>)),
             origin \o ".", RR(origin \o ".", "CDS", DefaultTTL, <<"zsk">>))

\* wildcardDNSName.MatchString, on the labels of qname (its parts at the dots):
\* ^[0-9a-f-]{3,45}\.[0-9a-f]{32}\.[0-9a-f]{32}\.<origin>\.$
wildcardDNSName(parts, origin) ==
    LET tail == Split(origin, ".") \o <<"">>
    IN  /\ Len(parts) = 3 + Len(tail)
        /\ SubSeq(parts, 4, Len(parts)) = tail
        /\ Len(parts[1]) \in 3..45
        /\ AllIn(parts[1], HexChars \cup {"-"})
        /\ Len(parts[2]) = 32 /\ AllIn(parts[2], HexChars)
        /\ Len(parts[3]) = 32 /\ AllIn(parts[3], HexChars)

\* mutant: the label is read with ':' for '-' in both attempts
LookupIPColons(qname, parts, origin) ==
    IF ~wildcardDNSName(parts, origin) THEN <<>>
    ELSE LET ipPart == parts[1]
             v4 == ParseIP(ReplaceAll(ipPart, "-", ":"))
             v6 == ParseIP(ReplaceAll(ipPart, "-", ":"))
         IN  IF v4.ok THEN <<RR(qname, "A", SynthTTL, To4(v4.val))>>
             ELSE IF v6.ok THEN <<RR(qname, "AAAA", SynthTTL, To16(v6.val))>>
             ELSE <<>>

\* Lookup, "handle ipv4 and ipv6 records": the synthesized RR, or none
LookupIP(qname, parts, origin) ==
    IF ~wildcardDNSName(parts, origin) THEN <<>>
    ELSE LET ipPart == parts[1]
             v4 == ParseIP(ReplaceAll(ipPart, "-", "."))
             v6 == ParseIP(ReplaceAll(ipPart, "-", ":"))
         IN  IF v4.ok THEN <<RR(qname, "A", SynthTTL, To4(v4.val))>>
             ELSE IF v6.ok THEN <<RR(qname, "AAAA", SynthTTL, To16(v6.val))>>
             ELSE <<>>

\* the records kept under a name; a missing key gives the nil slice
Records(static, name) == IF name \in DOMAIN static THEN static[name] ELSE <<>>

\* "*." + strings.Join(parts[i:], ".")
WcQname(parts, i) == "*." \o Join(SubSeq(parts, i + 1, Len(parts)), ".")

\* the loop "for i := 1; i < len(parts); i++": the first level from i on
\* that has records, or 0
RECURSIVE WildcardLevel(_, _, _)
WildcardLevel(static, parts, i) ==
    IF ~(i < Len(parts)) THEN 0
    ELSE IF Len(Records(static, WcQname(parts, i))) > 0 THEN i
    ELSE WildcardLevel(static, parts, i + 1)

\* the loop without its break: the last level that has records, or 0
RECURSIVE WildcardLastLevel(_, _, _)
WildcardLastLevel(static, parts, i) ==
    IF ~(i < Len(parts)) THEN 0
    ELSE LET later == WildcardLastLevel(static, parts, i + 1) IN
         IF later # 0 THEN later
         ELSE IF Len(Records(static, WcQname(parts, i))) > 0 THEN i
         ELSE 0

\* dns.Copy(r) with Header().Name = qname, for every match
Rewritten(matches, qname) ==
    [j \in 1..Len(matches) |-> [matches[j] EXCEPT !.name = qname]]

\* mutant: no break, so the shortest matching suffix answers
LookupWildcardShortest(static, qname, parts) ==
    LET i == WildcardLastLevel(static, parts, 1)
    IN  IF i = 0 THEN [rr |-> <<>>, static |-> static]
        ELSE [rr |-> Rewritten(Records(static, WcQname(parts, i)), qname),
              static |-> static]

\* mutant: the owner name is rewritten on the zone's own records, not copies
LookupWildcardInPlace(static, qname, parts) ==
    LET i == WildcardLevel(static, parts, 1)
    IN  IF i = 0 THEN [rr |-> <<>>, static |-> static]
        ELSE [rr |-> Rewritten(Records(static, WcQname(parts, i)), qname),
              static |-> [static EXCEPT ![WcQname(parts, i)] = Rewritten(@, qname)]]

\* Lookup, "handle wildcard records": the answer and the zone map afterwards
LookupWildcard(static, qname, parts) ==
    LET i == WildcardLevel(static, parts, 1)
    IN  IF i = 0 THEN [rr |-> <<>>, static |-> static]
        ELSE [rr |-> Rewritten(Records(static, WcQname(parts, i)), qname),
              static |-> static]

\* Lookup, "handle ACME challenge records"
LookupACME(table, qname) ==
    LET vRecord == GetValidationRecord(table, qname) IN
    IF vRecord # NoValue THEN <<RR(qname, "TXT", 0, <<vRecord>>)>> ELSE <<>>

\* mutant: a challenge name with no stored value falls through to the zone
LookupACMEFallsThrough(static, table, name, origin) ==
    LET qname == CanonicalName(name)
        parts == Split(qname, ".")
        ip == LookupIP(qname, parts, origin)
    IN  IF HasPrefix(qname, "_acme-challenge.") /\ LookupACME(table, qname) # <<>>
        THEN [rr |-> LookupACME(table, qname), static |-> static]
        ELSE IF ip # <<>>
        THEN [rr |-> ip, static |-> static]
        ELSE IF Len(Records(static, qname)) # 0
        THEN [rr |-> Records(static, qname), static |-> static]
        ELSE LookupWildcard(static, qname, parts)

\* mutant: the static map is read before the label is tried as an address
LookupStaticFirst(static, table, name, origin) ==
    LET qname == CanonicalName(name)
        parts == Split(qname, ".")
        ip == LookupIP(qname, parts, origin)
    IN  IF HasPrefix(qname, "_acme-challenge.")
        THEN [rr |-> LookupACME(table, qname), static |-> static]
        ELSE IF Len(Records(static, qname)) # 0
        THEN [rr |-> Records(static, qname), static |-> static]
        ELSE IF ip # <<>>
        THEN [rr |-> ip, static |-> static]
        ELSE LookupWildcard(static, qname, parts)

\* DNSBackend.Lookup: the answer and the zone map afterwards
Lookup(static, table, name, origin) ==
    LET qname == CanonicalName(name)
        parts == Split(qname, ".")
        ip == LookupIP(qname, parts, origin)
    IN  IF HasPrefix(qname, "_acme-challenge.")
        THEN [rr |-> LookupACME(table, qname), static |-> static]
        ELSE IF ip # <<>>
        THEN [rr |-> ip, static |-> static]
        ELSE IF Len(Records(static, qname)) # 0
        THEN [rr |-> Records(static, qname), static |-> static]
        ELSE LookupWildcard(static, qname, parts)

(***************************************************************************)
(* ACME.RequestCert / ACME.requestCert                                     *)
(***************************************************************************)

\* const ACMERetries
ACMERetries == 3

\* const ACMERetryDelay, seconds
ACMERetryDelay == 15

\* HTTP requests accepted in one run of the model
MaxReqs == 2

\* the requests being served at one time
Reqs == {1, 2}

IdleReq ==
    [pc |-> "idle", baseName |-> "", csr |-> NilBytes,
     i |-> 0, delay |-> 0, order |-> 0, nAuthz |-> 0, k |-> 0, encoded |-> NilBytes,
     ctxDone |-> FALSE, status |-> 0, out |-> NilBytes, err |-> "",
     \* the endpoint and the body of a request answered without RequestCert,
     \* and whether the body read was larger than 10 KiB
     via |-> "", body |-> NilBytes, large |-> FALSE,
     ident |-> "",
     \* history: attempts begun, delays slept, an error met in this attempt
     attempts |-> 0, sleeps |-> <<>>, failed |-> FALSE]

\* the handler of endpoint via answers without calling RequestCert
Respond(q, status, via, body) ==
    [q EXCEPT !.pc = "done", !.status = status, !.via = via, !.body = body]

\* RequestCert(ctx, baseName, csrData, backend): delay := ACMERetryDelay; i := 0
BeginRequestCert(q, baseName, csr) ==
    [q EXCEPT !.pc = "check", !.baseName = baseName, !.csr = csr,
              !.i = 0, !.delay = ACMERetryDelay, !.attempts = 1]

\* mutant: the remaining life is compared with twice MinLife
CacheHitStrict(expiry, n) == Until(expiry, n) > 2 * MinLife

\* mutant: whatever Get returns without an error is handed back
CacheHitAnyRow(expiry, n) == TRUE

\* time.Until(expiry) > a.MinLife
CacheHit(expiry, n) == Until(expiry, n) > MinLife

\* mutant: i < ACMERetries, a sleep and a retry follow the last attempt too
AttemptFailedSleepsAgain(q, e) ==
    IF q.i < ACMERetries
    THEN [q EXCEPT !.pc = "sleep", !.sleeps = Append(@, q.delay),
                   !.failed = TRUE, !.encoded = NilBytes]
    ELSE [q EXCEPT !.pc = "done", !.status = 500, !.err = e,
                   !.failed = TRUE, !.encoded = NilBytes]

\* requestCert returned err: sleep and retry, or give up after the last attempt
AttemptFailed(q, e) ==
    IF q.i < ACMERetries - 1
    THEN [q EXCEPT !.pc = "sleep", !.sleeps = Append(@, q.delay),
                   !.failed = TRUE, !.encoded = NilBytes]
    ELSE [q EXCEPT !.pc = "done", !.status = 500, !.err = e,
                   !.failed = TRUE, !.encoded = NilBytes]

\* requestCert returned a chain: RequestCert returns it, the handler writes it
AttemptSucceeded(q, cert) ==
    [q EXCEPT !.pc = "done", !.status = 200, !.out = cert, !.encoded = NilBytes]

\* the call at q.pc returned without error
Step(q, pc) == [q EXCEPT !.pc = pc]


(***************************************************************************)
(* SpecPin: the pinning functions on drawn inputs                          *)
(***************************************************************************)

\* longest DNS SAN list drawn for a CSR
MaxSans == 2

PinnedWildcard(pub, origin) ==
    "*." \o SubSeq(Sha256Hex(pub), 1, 32) \o "." \o SubSeq(Sha256Hex(pub), 33, 64)
    \o "." \o origin

DrawnNames ==
    {PinnedWildcard("pub1", Origin), PinnedWildcard("pub1", "example.com"),
     PinnedWildcard("pub2", Origin), "*.attacker.tls.page"}

SeqsUpTo(S, n) == UNION {[1..m -> S] : m \in 0..n}

DrawnCSRs ==
    {CSR(pub, cn, dns, email, ip, uri, 1) :
        pub \in PubKeys,
        cn \in {""} \cup DrawnNames,
        dns \in SeqsUpTo(DrawnNames, MaxSans),
        email \in {<<>>, <<"admin@tls.page">>, <<PinnedWildcard("pub1", Origin)>>},
        ip \in {<<>>, <<"ip4">>, <<"ip6">>},
        uri \in {<<>>, <<"https://attacker.tls.page/">>, <<PinnedWildcard("pub1", Origin)>>}}

JunkData == [fmt |-> "junk"]
NoResult == Err("")

PinInit ==
    \/ \E c \in DrawnCSRs, o \in Origins :
          pin = [op |-> "input", kind |-> "csr", origin |-> o, key |-> JunkData,
                 csrData |-> DER(c), hostname |-> NoResult, res |-> NoResult]
    \/ \E o \in Origins :
          pin = [op |-> "input", kind |-> "csr", origin |-> o, key |-> JunkData,
                 csrData |-> JunkData, hostname |-> NoResult, res |-> NoResult]
    \/ \E k \in KeyInputs, o \in Origins :
          pin = [op |-> "input", kind |-> "key", origin |-> o, key |-> k,
                 csrData |-> JunkData, hostname |-> NoResult, res |-> NoResult]

SysVars ==
    <<now, cache, validation, req, orders, budget, call, StaticRecords, dnsCall,
      proc, cluster, fs>>

\* the server validates the drawn CSR
PinValidate ==
    /\ pin.op = "input" /\ pin.kind = "csr"
    /\ pin' = [pin EXCEPT !.op = "validated",
                          !.res = CSRPinnedBaseName(pin.csrData, pin.origin)]
    /\ UNCHANGED SysVars

\* the client computes its hostname
PinHostname ==
    /\ pin.op = "input" /\ pin.kind = "key"
    /\ pin' = [pin EXCEPT !.op = "named", !.hostname = Hostname(pin.key, pin.origin)]
    /\ UNCHANGED SysVars

\* the client generates the CSR for its hostname
PinGenerateCSR ==
    /\ pin.op = "named" /\ pin.hostname.ok
    /\ \E sig \in Sigs :
          pin' = [pin EXCEPT !.op = "generated",
                     !.csrData = GenerateCSR(pin.key, pin.hostname.val, sig).val]
    /\ UNCHANGED SysVars

\* the server decodes the PEM and validates the generated CSR
PinRoundTrip ==
    /\ pin.op = "generated"
    /\ pin' = [pin EXCEPT !.op = "roundtrip",
                  !.res = CSRPinnedBaseName(PemDecode(pin.csrData).val, pin.origin)]
    /\ UNCHANGED SysVars

PinNext ==
    \/ PinValidate
    \/ PinHostname
    \/ PinGenerateCSR
    \/ PinRoundTrip

(***************************************************************************)
(* HTTPS API: the handlers that reach RequestCert                          *)
(***************************************************************************)

\* a CSR as GenerateCSR makes it: the one DNS SAN "*." + pinned base
PinnedCSR(pub, origin, sig) ==
    CSR(pub, "", <<PinnedWildcard(pub, origin)>>, <<>>, <<>>, <<>>, sig)

\* keys posted to the API: the keys of this run's clients and the malformed ones
PostedKeys == KeyInputs \ {KeyPEM(k) : k \in PrivKeys \ budget.keys}

\* bodies posted to /cert-from-csr and /hostname-from-csr
GoodCSRData ==
    {DER(PinnedCSR(PublicKey(k), Origin, sig)) : k \in budget.keys, sig \in Sigs}
    \cup {PEM("CERTIFICATE REQUEST", DER(PinnedCSR("pub1", Origin, 1)))}

BadCSRData ==
    {JunkData, [fmt |-> "badpem"],
     \* the pinned name and one more
     DER(CSR("pub1", "", <<PinnedWildcard("pub1", Origin), "*.attacker.tls.page">>,
             <<>>, <<>>, <<>>, 1)),
     \* another key's pinned name
     DER(CSR("pub1", "", <<PinnedWildcard("pub2", Origin)>>, <<>>, <<>>, <<>>, 1)),
     \* no name at all
     DER(CSR("pub2", "", <<>>, <<>>, <<>>, <<>>, 1))}

CSRData == GoodCSRData \cup BadCSRData

CSRBodies ==
    {[data |-> d, declared |-> TRUE, large |-> FALSE] : d \in CSRData}
    \cup {[data |-> DER(PinnedCSR("pub1", Origin, 1)), declared |-> dc, large |-> TRUE] :
             dc \in IF budget.large THEN BOOLEAN ELSE {}}

\* paths requested under /cert/
CertPaths ==
    {SubSeq(PinnedWildcard(pub, Origin), 3, Len(PinnedWildcard(pub, Origin))) :
        pub \in PubKeys} \cup {"unknown.tls.page"}

\* the lowest idle slot serves the next request
Free(r) ==
    /\ r <= budget.slots
    /\ req[r].pc = "idle"
    /\ \A s \in Reqs : s < r => req[s].pc # "idle"
    /\ budget.reqs > 0

\* mutant: the order is started before the pinned base name is checked
CertFromCSROrdersFirst(r) ==
    /\ Free(r)
    /\ \E body \in CSRBodies :
         LET block == PemDecode(body.data)
             csr == IF ContainsDashes(body.data) /\ block.ok THEN block.val
                    ELSE body.data
             baseName == CSRPinnedBaseName(csr, Origin)
             q == [req[r] EXCEPT !.large = body.large]
         IN  /\ req' = [req EXCEPT ![r] =
                   IF body.declared /\ body.large
                   THEN Respond(q, 413, "cert-from-csr", body.data)
                   ELSE IF ContainsDashes(body.data) /\ ~block.ok
                   THEN Respond(q, 400, "cert-from-csr", body.data)
                   ELSE IF ~baseName.ok
                   THEN Respond(q, 400, "cert-from-csr", body.data)
                   ELSE BeginRequestCert(q, baseName.val, csr)]
             /\ orders' = IF ~(body.declared /\ body.large)
                             /\ ~(ContainsDashes(body.data) /\ ~block.ok)
                             /\ ~baseName.ok /\ orders < MaxOrders
                          THEN orders + 1 ELSE orders
    /\ budget' = [budget EXCEPT !.reqs = @ - 1]
    /\ UNCHANGED <<proc, cluster, fs, StaticRecords, dnsCall, call, pin, now, cache, validation>>

\* certFromCSRHandler
CertFromCSR(r) ==
    /\ Free(r)
    /\ \E body \in CSRBodies :
         LET block == PemDecode(body.data)
             csr == IF ContainsDashes(body.data) /\ block.ok THEN block.val
                    ELSE body.data
             baseName == CSRPinnedBaseName(csr, Origin)
             q == [req[r] EXCEPT !.large = body.large]
         IN  req' = [req EXCEPT ![r] =
               IF body.declared /\ body.large
               THEN Respond(q, 413, "cert-from-csr", body.data)
               ELSE IF ContainsDashes(body.data) /\ ~block.ok
               THEN Respond(q, 400, "cert-from-csr", body.data)
               ELSE IF ~baseName.ok
               THEN Respond(q, 400, "cert-from-csr", body.data)
               ELSE BeginRequestCert(q, baseName.val, csr)]
    /\ budget' = [budget EXCEPT !.reqs = @ - 1]
    /\ UNCHANGED <<proc, cluster, fs, StaticRecords, dnsCall, call, pin, now, cache, validation, orders>>

\* certFromKeyHandler
CertFromKey(r) ==
    /\ Free(r)
    /\ \E key \in PostedKeys, sig \in Sigs :
         LET hostname == Hostname(key, Origin)
             csr == GenerateCSR(key, hostname.val, sig)
             block == PemDecode(csr.val)
         IN  req' = [req EXCEPT ![r] =
               IF ~hostname.ok
               THEN Respond(@, 500, "cert-from-key", key)
               ELSE IF ~csr.ok
               THEN Respond(@, 500, "cert-from-key", key)
               ELSE IF ~block.ok
               THEN Respond(@, 400, "cert-from-key", key)
               ELSE BeginRequestCert(@, hostname.val, block.val)]
    /\ budget' = [budget EXCEPT !.reqs = @ - 1]
    /\ UNCHANGED <<proc, cluster, fs, StaticRecords, dnsCall, call, pin, now, cache, validation, orders>>

\* mutant: the handler does not look whether a CSR was found
CertForHostnameNoCheck(r) ==
    /\ Free(r)
    /\ \E hostname \in CertPaths :
         /\ req' = [req EXCEPT ![r] =
                       BeginRequestCert(@, hostname, Get(cache, "*." \o hostname).csr)]
         /\ budget' = [budget EXCEPT !.reqs = @ - 1]
    /\ UNCHANGED <<proc, cluster, fs, StaticRecords, dnsCall, call, pin, now, cache, validation, orders>>

\* certForHostnameHandler
CertForHostname(r) ==
    /\ Free(r)
    /\ \E hostname \in CertPaths :
         LET g == Get(cache, "*." \o hostname) IN
         \/ /\ g.csr = NilBytes
            /\ req' = [req EXCEPT ![r] = Respond(@, 404, "cert", [fmt |-> "path", path |-> hostname])]
            /\ budget' = [budget EXCEPT !.reqs = @ - 1]
         \/ /\ g.csr # NilBytes
            /\ req' = [req EXCEPT ![r] = BeginRequestCert(@, hostname, g.csr)]
            /\ budget' = [budget EXCEPT !.reqs = @ - 1]
         \/ \* the store fails the SELECT
            /\ budget.faults > 0
            /\ budget' = [budget EXCEPT !.reqs = @ - 1, !.faults = @ - 1]
            /\ req' = [req EXCEPT ![r] = Respond(@, 500, "cert", [fmt |-> "path", path |-> hostname])]
    /\ UNCHANGED <<proc, cluster, fs, StaticRecords, dnsCall, call, pin, now, cache, validation, orders>>

\* the handler has written its response and returns
Return(r) ==
    /\ req[r].pc = "done"
    /\ req' = [req EXCEPT ![r] = IdleReq]
    /\ UNCHANGED <<proc, cluster, fs, StaticRecords, dnsCall, call, pin, now, cache, validation, orders, budget>>

(***************************************************************************)
(* HTTPS API: the handlers that only store a CSR                           *)
(***************************************************************************)

\* a free slot keeps the answer of a handler that refused its input
Refuse(status, via, body) ==
    /\ \E r \in Reqs : Free(r) /\ req' = [req EXCEPT ![r] = Respond(@, status, via, body)]
    /\ budget' = [budget EXCEPT !.reqs = @ - 1]
    /\ UNCHANGED cache

\* hostnameFromCSRHandler: validate, then PutCSR
HostnameFromCSR ==
    /\ \E data \in CSRData :
         LET block == PemDecode(data)
             csr == IF ContainsDashes(data) /\ block.ok THEN block.val ELSE data
             baseName == CSRPinnedBaseName(csr, Origin)
         IN  IF ContainsDashes(data) /\ ~block.ok
             THEN Refuse(400, "hostname-from-csr", data)
             ELSE IF ~baseName.ok
             THEN Refuse(400, "hostname-from-csr", data)
             ELSE /\ cache' = PutCSR(cache, csr, Origin).table
                  /\ UNCHANGED <<req, budget>>
    /\ UNCHANGED <<proc, cluster, fs, StaticRecords, dnsCall, call, pin, now, validation, orders>>

\* hostnameFromKeyHandler: Hostname, then PutKey
HostnameFromKey ==
    /\ \E key \in PostedKeys, sig \in Sigs :
         IF ~Hostname(key, Origin).ok
         THEN Refuse(400, "hostname-from-key", key)
         ELSE /\ cache' = PutKey(cache, key, Origin, sig).table
              /\ UNCHANGED <<req, budget>>
    /\ UNCHANGED <<proc, cluster, fs, StaticRecords, dnsCall, call, pin, now, validation, orders>>

\* csrFromKeyHandler: Hostname, GenerateCSR, PutCSR of the PEM
CsrFromKey ==
    /\ \E key \in PostedKeys, sig \in Sigs :
         LET hostname == Hostname(key, Origin)
             csr == GenerateCSR(key, hostname.val, sig)
         IN  IF ~hostname.ok
             THEN Refuse(500, "csr-from-key", key)
             ELSE IF ~csr.ok
             THEN Refuse(500, "csr-from-key", key)
             ELSE /\ cache' = PutCSR(cache, csr.val, Origin).table
                  /\ UNCHANGED <<req, budget>>
    /\ UNCHANGED <<proc, cluster, fs, StaticRecords, dnsCall, call, pin, now, validation, orders>>

\* certificates posted to /hostname-from-cert: no PEM, a PEM block that is
\* no certificate, a certificate without names, one with a SAN only, a leaf
CertBodies ==
    {JunkData,
     PEM("CERTIFICATE", JunkData),
     PEM("CERTIFICATE", [fmt |-> "der-cert",
                         cert |-> [cn |-> "", dns |-> <<>>, notAfter |-> BootTime,
                                   serial |-> 1, pub |-> "pub1"]]),
     PEM("CERTIFICATE", [fmt |-> "der-cert",
                         cert |-> [cn |-> "", dns |-> <<PinnedWildcard("pub2", Origin)>>,
                                   notAfter |-> BootTime, serial |-> 1, pub |-> "pub2"]]),
     EncodeChain(CAChain(PinnedWildcard("pub1", Origin),
                         DER(PinnedCSR("pub1", Origin, 1)), 1, BootTime))}

\* hostnameFromCertHandler: the CN, else the first DNS SAN, less a leading "*."
HostnameFromCert(r) ==
    /\ Free(r)
    /\ \E certData \in CertBodies :
         LET block == PemDecode(certData)
             cert == ParseCertificate(block.val)
             hostname == IF cert.val.cn = "" /\ Len(cert.val.dns) > 0
                         THEN cert.val.dns[1] ELSE cert.val.cn
         IN  req' = [req EXCEPT ![r] =
               IF ~block.ok
               THEN Respond(@, 400, "hostname-from-cert", certData)
               ELSE IF ~cert.ok
               THEN Respond(@, 400, "hostname-from-cert", certData)
               ELSE IF hostname = ""
               THEN Respond(@, 400, "hostname-from-cert", certData)
               ELSE [Respond(@, 200, "hostname-from-cert", certData) EXCEPT
                        !.out = [fmt |-> "text",
                                 text |-> IF HasPrefix(hostname, "*.")
                                          THEN SubSeq(hostname, 3, Len(hostname))
                                          ELSE hostname]]]
    /\ budget' = [budget EXCEPT !.reqs = @ - 1]
    /\ UNCHANGED <<proc, cluster, fs, StaticRecords, dnsCall, call, pin, now, cache, validation, orders>>

(***************************************************************************)
(* One attempt: ACME.requestCert, a step per call that leaves the process  *)
(***************************************************************************)

\* clock steps in one run of the model
MaxTicks == 1

TickStep == 40 * Day

\* "_acme-challenge." + baseName + "."
ChallengeName(baseName) == "_acme-challenge." \o baseName \o "."

\* the store or the CA fails a call
Fault == budget.faults > 0 /\ budget' = [budget EXCEPT !.faults = @ - 1]

\* a.cache.Get("*." + baseName), then the MinLife test
CacheCheck(r) ==
    LET q == req[r]
        g == Get(cache, "*." \o q.baseName)
    IN  /\ q.pc = "check"
        /\ \/ /\ Fault
              /\ req' = [req EXCEPT ![r] =
                           AttemptFailed(q, "certificate cache error")]
           \/ /\ CacheHit(g.expiry, now)
              /\ req' = [req EXCEPT ![r] = AttemptSucceeded(q, g.cert)]
              /\ UNCHANGED budget
           \/ /\ ~CacheHit(g.expiry, now)
              /\ req' = [req EXCEPT ![r] = Step(q, "order")]
              /\ UNCHANGED budget
        /\ UNCHANGED <<proc, cluster, fs, StaticRecords, dnsCall, call, pin, now, cache, validation, orders>>

\* a.client.AuthorizeOrder(ctx, {dns, "*." + baseName})
AuthorizeOrder(r) ==
    LET q == req[r] IN
    /\ q.pc = "order"
    /\ \/ /\ ~q.ctxDone
          /\ orders < MaxOrders
          /\ orders' = orders + 1
          /\ \E n \in 1..MaxAuthz :
               req' = [req EXCEPT ![r] =
                         [Step(q, "authz") EXCEPT
                            !.order = orders + 1, !.ident = "*." \o q.baseName,
                            !.nAuthz = n, !.k = 1]]
          /\ UNCHANGED budget
       \/ /\ q.ctxDone \/ Fault
          /\ q.ctxDone => UNCHANGED budget
          /\ req' = [req EXCEPT ![r] =
                       AttemptFailed(q, "failed to start certificate order")]
          /\ UNCHANGED orders
    /\ UNCHANGED <<proc, cluster, fs, StaticRecords, dnsCall, call, pin, now, cache, validation>>

\* a.client.GetAuthorization, the dns-01 challenge, DNS01ChallengeRecord
GetAuthorization(r) ==
    LET q == req[r] IN
    /\ q.pc = "authz"
    /\ \/ /\ ~q.ctxDone
          /\ req' = [req EXCEPT ![r] = Step(q, "setrec")]
          /\ UNCHANGED budget
       \/ /\ q.ctxDone \/ Fault
          /\ q.ctxDone => UNCHANGED budget
          /\ req' = [req EXCEPT ![r] =
                       AttemptFailed(q, "failed to get authorization")]
       \/ /\ ~q.ctxDone
          /\ Fault
          /\ req' = [req EXCEPT ![r] =
                       AttemptFailed(q, "no DNS-01 challenge found")]
       \/ /\ ~q.ctxDone
          /\ Fault
          /\ req' = [req EXCEPT ![r] =
                       AttemptFailed(q, "failed to get DNS-01 challenge key")]
    /\ UNCHANGED <<proc, cluster, fs, StaticRecords, dnsCall, call, pin, now, cache, validation, orders>>

\* backend.SetValidationRecord(...): the error it returns is dropped
SetRecord(r) ==
    LET q == req[r] IN
    /\ q.pc = "setrec"
    /\ \/ /\ validation' = SetValidationRecord(validation, ChallengeName(q.baseName),
                                               ChallengeKey(q.order, q.k), now)
          /\ req' = [req EXCEPT ![r] = Step(q, "wait")]
          /\ UNCHANGED budget
       \/ /\ Fault
          /\ req' = [req EXCEPT ![r] =
                       Step([q EXCEPT !.failed = TRUE], "wait")]
          /\ UNCHANGED validation
    /\ UNCHANGED <<proc, cluster, fs, StaticRecords, dnsCall, call, pin, now, cache, orders>>

\* mutant: time.Sleep(10 * time.Second) in place of the select
WaitPropagationSleeps(r) ==
    LET q == req[r] IN
    /\ q.pc = "wait"
    /\ req' = [req EXCEPT ![r] = Step(q, "accept")]
    /\ UNCHANGED <<proc, cluster, fs, StaticRecords, dnsCall, call, pin, now, cache, validation, orders, budget>>

\* select: ctx.Done() or time.After(10 * time.Second)
WaitPropagation(r) ==
    LET q == req[r] IN
    /\ q.pc = "wait"
    /\ \/ /\ q.ctxDone
          /\ req' = [req EXCEPT ![r] =
                       AttemptFailed(q, "context canceled")]
       \/ /\ ~q.ctxDone
          /\ req' = [req EXCEPT ![r] = Step(q, "accept")]
    /\ UNCHANGED <<proc, cluster, fs, StaticRecords, dnsCall, call, pin, now, cache, validation, orders, budget>>

\* a.client.Accept(ctx, challenge)
Accept(r) ==
    LET q == req[r] IN
    /\ q.pc = "accept"
    /\ \/ /\ ~q.ctxDone
          /\ req' = [req EXCEPT ![r] = Step(q, "waitauthz")]
          /\ UNCHANGED budget
       \/ /\ q.ctxDone \/ Fault
          /\ q.ctxDone => UNCHANGED budget
          /\ req' = [req EXCEPT ![r] =
                       AttemptFailed(q, "failed to accept challenge")]
    /\ UNCHANGED <<proc, cluster, fs, StaticRecords, dnsCall, call, pin, now, cache, validation, orders>>

\* the TXT value the CA reads matches the challenge
CAValidates(q) ==
    GetValidationRecord(validation, ChallengeName(q.baseName))
        = ChallengeKey(q.order, q.k)

\* a.client.WaitAuthorization(ctx, authz)
WaitAuthorization(r) ==
    LET q == req[r] IN
    /\ q.pc = "waitauthz"
    /\ \/ /\ ~q.ctxDone
          /\ CAValidates(q)
          /\ req' = [req EXCEPT ![r] =
                       IF q.k < q.nAuthz
                       THEN [Step(q, "authz") EXCEPT !.k = q.k + 1]
                       ELSE Step(q, "finalize")]
          /\ UNCHANGED budget
       \/ /\ q.ctxDone \/ ~CAValidates(q) \/ Fault
          /\ (q.ctxDone \/ ~CAValidates(q)) => UNCHANGED budget
          /\ req' = [req EXCEPT ![r] =
                       AttemptFailed(q, "authorization failed")]
    /\ UNCHANGED <<proc, cluster, fs, StaticRecords, dnsCall, call, pin, now, cache, validation, orders>>

\* the CA issues for an order only a CSR that names the order's identifier
CAAccepts(q) ==
    /\ ParseCertificateRequest(q.csr).ok
    /\ LET names == getCSRNames(q.csr.csr) IN
       /\ Len(names) > 0
       /\ \A n \in 1..Len(names) : names[n] = q.ident

\* a.client.CreateOrderCert(ctx, order.FinalizeURL, csrData, true), PEM encoding
Finalize(r) ==
    LET q == req[r] IN
    /\ q.pc = "finalize"
    /\ \/ /\ ~q.ctxDone
          /\ CAAccepts(q)
          /\ req' = [req EXCEPT ![r] =
                       [Step(q, "put") EXCEPT
                          !.encoded = EncodeChain(CAChain(q.ident, q.csr, q.order, now))]]
          /\ UNCHANGED budget
       \/ /\ q.ctxDone \/ ~CAAccepts(q) \/ Fault
          /\ (q.ctxDone \/ ~CAAccepts(q)) => UNCHANGED budget
          /\ req' = [req EXCEPT ![r] =
                       AttemptFailed(q, "failed to finalize order")]
    /\ UNCHANGED <<proc, cluster, fs, StaticRecords, dnsCall, call, pin, now, cache, validation, orders>>

\* a.cache.Put(csrData, encoded); return encoded
Persist(r) ==
    LET q == req[r]
        put == Put(cache, q.csr, q.encoded)
    IN  /\ q.pc = "put"
        /\ \/ /\ put.err = ""
              /\ cache' = put.table
              /\ req' = [req EXCEPT ![r] = AttemptSucceeded(q, q.encoded)]
              /\ UNCHANGED budget
           \/ /\ put.err # "" \/ Fault
              /\ put.err # "" => UNCHANGED budget
              /\ req' = [req EXCEPT ![r] =
                           AttemptFailed(q, "failed to save certificate to cache")]
              /\ UNCHANGED cache
        /\ UNCHANGED <<proc, cluster, fs, StaticRecords, dnsCall, call, pin, now, validation, orders>>

\* time.Sleep(delay) returns: delay *= 2, the next attempt starts
Wake(r) ==
    LET q == req[r] IN
    /\ q.pc = "sleep"
    /\ req' = [req EXCEPT ![r] =
                 [q EXCEPT !.pc = "check", !.i = q.i + 1, !.delay = q.delay * 2,
                           !.attempts = q.attempts + 1,
                           !.failed = FALSE, !.order = 0, !.nAuthz = 0, !.k = 0,
                           !.ident = ""]]
    /\ UNCHANGED <<proc, cluster, fs, StaticRecords, dnsCall, call, pin, now, cache, validation, orders, budget>>

\* the client goes away: the request's context is cancelled
Cancel(r) ==
    /\ req[r].pc \notin {"idle", "done"}
    /\ ~req[r].ctxDone
    /\ Fault
    /\ req' = [req EXCEPT ![r].ctxDone = TRUE]
    /\ UNCHANGED <<proc, cluster, fs, StaticRecords, dnsCall, call, pin, now, cache, validation, orders>>

\* time passes between requests: a call lasts minutes, a step of the clock days
Tick ==
    /\ \A r \in Reqs : req[r].pc = "idle"
    /\ now < BootTime + MaxTicks * TickStep
    /\ now' = now + TickStep
    /\ UNCHANGED <<proc, cluster, fs, StaticRecords, dnsCall, call, pin, cache, validation, req, orders, budget>>

(***************************************************************************)
(* SpecCache: the cert cache's operations on drawn arguments               *)
(***************************************************************************)

\* serial numbers of the chains drawn for Put
MaxSerials == 2

\* the CSRs a row may hold
StoredCSRs == {DER(PinnedCSR(pub, Origin, sig)) : pub \in PubKeys, sig \in Sigs}

\* arguments of PutCSR
PutCSRData ==
    StoredCSRs \cup BadCSRData
    \cup {PEM("CERTIFICATE REQUEST", DER(PinnedCSR("pub2", Origin, 2)))}

\* arguments of Put: chains of the CA, a chain whose leaf has no CN, a leaf
\* with no name at all, a PEM block that is no certificate, bytes that are no PEM
PutChains ==
    {EncodeChain(CAChain(PinnedWildcard(pub, Origin), DER(PinnedCSR(pub, Origin, 1)),
                         serial, BootTime)) :
        pub \in PubKeys, serial \in 1..MaxSerials}
    \cup {PEM("CERTIFICATE",
              [fmt |-> "der-cert",
               cert |-> [cn |-> "", dns |-> <<PinnedWildcard("pub1", Origin)>>,
                         notAfter |-> BootTime + CertLife, serial |-> 1,
                         pub |-> "pub1"]]),
          PEM("CERTIFICATE",
              [fmt |-> "der-cert",
               cert |-> [cn |-> "", dns |-> <<>>, notAfter |-> BootTime + CertLife,
                         serial |-> 1, pub |-> "pub1"]]),
          PEM("CERTIFICATE", JunkData),
          JunkData}

\* subjects looked up
GetSubjects == {PinnedWildcard(pub, Origin) : pub \in PubKeys} \cup {"*.tls.page"}

NoRow == [csr |-> NilBytes, cert |-> NilBytes, expiry |-> ZeroTime, err |-> ""]

NoCall ==
    [op |-> "none", arg |-> NilBytes, chain |-> NilBytes, subject |-> "",
     before |-> EmptyTable, err |-> "", res |-> NoRow]

CacheVars ==
    <<pin, now, validation, req, orders, budget, StaticRecords, dnsCall, proc, cluster, fs>>

\* c.PutCSR(csr)
CachePutCSR ==
    /\ \E data \in PutCSRData :
         LET p == PutCSR(cache, data, Origin) IN
         /\ cache' = p.table
         /\ call' = [NoCall EXCEPT !.op = "PutCSR", !.arg = data,
                                   !.before = cache, !.err = p.err]
    /\ UNCHANGED CacheVars

\* c.PutKey(key)
CachePutKey ==
    /\ \E key \in KeyInputs, sig \in Sigs :
         LET p == PutKey(cache, key, Origin, sig) IN
         /\ cache' = p.table
         /\ call' = [NoCall EXCEPT !.op = "PutKey", !.arg = key,
                                   !.before = cache, !.err = p.err]
    /\ UNCHANGED CacheVars

\* c.Put(csr, cert)
CachePut ==
    /\ \E csr \in StoredCSRs, chain \in PutChains :
         LET p == Put(cache, csr, chain) IN
         /\ cache' = p.table
         /\ call' = [NoCall EXCEPT !.op = "Put", !.arg = csr, !.chain = chain,
                                   !.before = cache, !.err = p.err]
    /\ UNCHANGED CacheVars

\* c.Get(subject)
CacheGet ==
    /\ \E subject \in GetSubjects :
         call' = [NoCall EXCEPT !.op = "Get", !.subject = subject,
                                !.before = cache, !.res = Get(cache, subject)]
    /\ UNCHANGED <<proc, cluster, fs, StaticRecords, dnsCall, cache, pin, now, validation, req, orders, budget>>

CacheNext ==
    \/ CachePutCSR
    \/ CachePutKey
    \/ CachePut
    \/ CacheGet

(***************************************************************************)
(* SpecDNS: the DNS backend's operations on drawn arguments                *)
(***************************************************************************)

\* minutes of wall clock one run of the model covers
MaxDNSMinutes == 11

\* the clock moves by ten or by eleven minutes
DNSTickSteps == {10 * 60, 11 * 60}

\* SetValidationRecord calls in one run of the model
MaxSets == 2

\* const CAAIdentifier
CAAIdentifier == "letsencrypt.org"

\* the pinned base name of a key under Origin
PinnedBase(pub) ==
    SubSeq(PinnedWildcard(pub, Origin), 3, Len(PinnedWildcard(pub, Origin)))

\* a zone file: apex, a host, a wildcard below the apex and one at the apex
ZoneFileBase ==
    << RR("tls.page.", "SOA", 3600, <<"ns1.tls.page.">>),
       RR("tls.page.", "A", DefaultTTL, <<192, 0, 2, 1>>),
       RR("www.tls.page.", "A", DefaultTTL, <<192, 0, 2, 2>>),
       RR("*.sub.tls.page.", "TXT", DefaultTTL, <<"sub">>),
       RR("*.tls.page.", "A", DefaultTTL, <<192, 0, 2, 3>>) >>

\* the same zone with records that shadow challenge and address names
ZoneFileShadow ==
    ZoneFileBase \o
    << RR("127-0-0-1." \o PinnedBase("pub1") \o ".", "A", DefaultTTL,
          <<198, 51, 100, 7>>),
       RR("*." \o PinnedBase("pub1") \o ".", "A", DefaultTTL, <<198, 51, 100, 8>>),
       RR("abc." \o PinnedBase("pub1") \o ".", "TXT", DefaultTTL, <<"abc">>),
       RR(ChallengeName(PinnedBase("pub1")), "TXT", DefaultTTL, <<"static">>),
       RR("_acme-challenge.tls.page.", "TXT", DefaultTTL, <<"static">>) >>

ZoneFiles == {ZoneFileBase, ZoneFileShadow}

\* main: NewDNSBackend, SetCAA, GoServeDNS, and only then the listeners
Startup(zoneFile) ==
    GoServeDNS(SetCAA(NewDNSBackend(zoneFile), Origin, CAAIdentifier), Origin)

\* leftmost labels queried under a pinned base
IPLabels ==
    {"203-0-113-1", "127-0-0-1", "0--1", "2001-db8-0--1", "1-2-3-4-5-6-7-8",
     "--ffff-c000-201", "256-0-0-1", "01-2-3-4", "1--2--3", "abc", "--"}

\* names queried
LookupNames ==
    {l \o "." \o PinnedBase("pub1") \o "." : l \in IPLabels}
    \cup {ChallengeName(PinnedBase(pub)) : pub \in PubKeys}
    \cup {"_acme-challenge.tls.page.", "_acme-challenge.nowhere.example.",
          "127-0-0-1." \o SubSeq(Sha256Hex("pub1"), 1, 32) \o ".tls.page.",
          "tls.page.", "www.tls.page.", "WWW.TLS.PAGE", "y.tls.page.",
          "x.sub.tls.page.", "a.b.sub.tls.page.", "nothing.example."}

\* names and values the orchestrator sets
SetNames == {ChallengeName(PinnedBase(pub)) : pub \in PubKeys}
SetValues == {ChallengeKey(1, 1), ChallengeKey(2, 1)}

NoDNS ==
    [op |-> "none", qname |-> "", value |-> NoValue, before |-> EmptyTable,
     at |-> 0, rr |-> <<>>, res |-> NoValue]

DNSVars == <<pin, cache, req, orders, call, proc, cluster, fs>>

\* b.SetValidationRecord(qname, value)
DNSSet ==
    /\ budget.reqs > 0
    /\ budget' = [budget EXCEPT !.reqs = @ - 1]
    /\ \E qname \in SetNames, value \in SetValues :
         /\ validation' = SetValidationRecord(validation, qname, value, now)
         /\ dnsCall' = [NoDNS EXCEPT !.op = "Set", !.qname = qname, !.value = value,
                                 !.before = validation, !.at = now]
    /\ UNCHANGED <<now, StaticRecords>>
    /\ UNCHANGED DNSVars

\* b.GetValidationRecord(qname)
DNSGet ==
    /\ \E qname \in SetNames :
         dnsCall' = [NoDNS EXCEPT !.op = "Get", !.qname = qname, !.before = validation,
                              !.at = now,
                              !.res = GetValidationRecord(validation, qname)]
    /\ UNCHANGED <<now, validation, StaticRecords, budget>>
    /\ UNCHANGED DNSVars

\* b.Lookup(qname, streamIsolationID)
DNSLookup ==
    /\ \E qname \in LookupNames :
         LET l == Lookup(StaticRecords, validation, qname, Origin) IN
         /\ dnsCall' = [NoDNS EXCEPT !.op = "Lookup", !.qname = qname,
                                 !.before = validation, !.at = now, !.rr = l.rr]
         /\ StaticRecords' = l.static
    /\ UNCHANGED <<now, validation, budget>>
    /\ UNCHANGED DNSVars

\* time passes
DNSTick ==
    /\ \E d \in DNSTickSteps :
         /\ now + d <= BootTime + MaxDNSMinutes * 60
         /\ now' = now + d
    /\ UNCHANGED <<validation, StaticRecords, dnsCall, budget>>
    /\ UNCHANGED DNSVars

DNSNext ==
    \/ DNSSet
    \/ DNSGet
    \/ DNSLookup
    \/ DNSTick

(***************************************************************************)
(* Process supervision: the signal goroutine and the shutdown hooks        *)
(***************************************************************************)

\* hooks registered at startup
MaxHooks == 3

\* SIGINTs sent to the process
MaxSignals == 2

\* the hook NewDqlite registers, and a hook that touches nothing else
HookNames == {"dqlite", "other"}

\* the process once startup has registered `handlers`: the goroutine of init()
\* waits on the channel c, which buffers one signal
NewProc(handlers) ==
    [ProcessShutdownHandlers |-> handlers, c |-> 0, sent |-> 0, pc |-> "wait",
     ranged |-> <<>>, i |-> 0, ran |-> <<>>, app |-> <<>>, exit |-> -1]

ShutdownVars ==
    <<pin, now, cache, validation, req, orders, budget, call, StaticRecords, dnsCall,
      cluster, fs>>

\* a SIGINT arrives: signal.Notify sends without blocking, a full channel drops it
SigInt ==
    /\ proc.pc # "exited"
    /\ proc.sent < MaxSignals
    /\ proc' = [proc EXCEPT !.sent = @ + 1, !.c = 1]
    /\ UNCHANGED ShutdownVars

\* <-c, then the range statement evaluates ProcessShutdownHandlers once
Receive ==
    /\ proc.pc = "wait"
    /\ proc.c = 1
    /\ proc' = [proc EXCEPT !.c = 0, !.pc = "range", !.i = 1,
                            !.ranged = proc.ProcessShutdownHandlers]
    /\ UNCHANGED ShutdownVars

\* handler(): the next hook is called
RunHook ==
    /\ proc.pc = "range"
    /\ proc.i <= Len(proc.ranged)
    /\ proc' = [proc EXCEPT !.ran = Append(@, proc.ranged[proc.i]),
                            !.pc = IF proc.ranged[proc.i] = "dqlite" THEN "handover"
                                   ELSE "range",
                            !.i = IF proc.ranged[proc.i] = "dqlite" THEN @ ELSE @ + 1]
    /\ UNCHANGED ShutdownVars

\* mutant: the hook returns when the handover fails
HandoverReturnsOnError ==
    /\ proc.pc = "handover"
    /\ \E err \in BOOLEAN :
         proc' = [proc EXCEPT !.app = Append(@, [f |-> "Handover", err |-> err]),
                              !.pc = IF err THEN "range" ELSE "close",
                              !.i = IF err THEN @ + 1 ELSE @]
    /\ UNCHANGED ShutdownVars

\* the dqlite hook: a.Handover(ctx), its error is logged
Handover ==
    /\ proc.pc = "handover"
    /\ \E err \in BOOLEAN :
         proc' = [proc EXCEPT !.app = Append(@, [f |-> "Handover", err |-> err]),
                              !.pc = "close"]
    /\ UNCHANGED ShutdownVars

\* the dqlite hook: a.Close(), its error is logged, the hook returns
Close ==
    /\ proc.pc = "close"
    /\ \E err \in BOOLEAN :
         proc' = [proc EXCEPT !.app = Append(@, [f |-> "Close", err |-> err]),
                              !.pc = "range", !.i = @ + 1]
    /\ UNCHANGED ShutdownVars

\* os.Exit(0) after the loop
Exit ==
    /\ proc.pc = "range"
    /\ proc.i > Len(proc.ranged)
    /\ proc' = [proc EXCEPT !.pc = "exited", !.exit = 0]
    /\ UNCHANGED ShutdownVars

ShutdownNext ==
    \/ SigInt
    \/ Receive
    \/ RunHook
    \/ Handover
    \/ Close
    \/ Exit

(***************************************************************************)
(* Cluster hygiene: cleanupHandler and the roles adjustment hook           *)
(***************************************************************************)

\* nodes a cluster starts with, at most
MaxNodes == 5

\* cleanup passes begun in one run
MaxPasses == 3

\* the passes under way at one time
Passes == {1, 2}

\* client.NodeInfo of node id in a cluster whose first `voters` nodes vote
NodeInfo(id, voters) ==
    [ID |-> id,
     Role |-> IF id <= voters THEN "Voter" ELSE IF id % 2 = 0 THEN "StandBy" ELSE "Spare"]

IdlePass ==
    [pc |-> "idle", kind |-> "", nodes |-> <<>>, i |-> 0, dialErr |-> FALSE, err |-> FALSE]

\* a cluster of `size` nodes led by node 1
NewCluster(size, voters) ==
    [members |-> 1..size, voters |-> voters, leader |-> 1, started |-> 0,
     pass |-> [p \in Passes |-> IdlePass], removed |-> {}]

\* c.Cluster(ctx): the members in ID order
Cluster ==
    LET Listed[n \in 0..MaxNodes] ==
            IF n = 0 THEN <<>>
            ELSE IF n \in cluster.members
                 THEN Append(Listed[n - 1], NodeInfo(n, cluster.voters))
                 ELSE Listed[n - 1]
    IN  Listed[MaxNodes]

ClusterVars ==
    <<pin, now, cache, validation, req, orders, budget, call, StaticRecords, dnsCall,
      proc, fs>>

\* a pass begins with the list of nodes; none is probed in a cluster of <= 3
Begin(p, kind) ==
    /\ cluster.pass[p].pc = "idle"
    /\ cluster.started < MaxPasses
    /\ \E err \in IF kind = "cleanup" THEN BOOLEAN ELSE {FALSE} :
         cluster' = [cluster EXCEPT
            !.started = @ + 1,
            !.pass[p] = IF err
                        THEN [IdlePass EXCEPT !.pc = "done", !.kind = kind, !.err = TRUE]
                        ELSE IF Len(Cluster) <= 3
                        THEN [IdlePass EXCEPT !.pc = "done", !.kind = kind,
                                              !.nodes = Cluster,
                                              !.err = (kind = "cleanup")]
                        ELSE [IdlePass EXCEPT !.pc = "probe", !.kind = kind,
                                              !.nodes = Cluster, !.i = 1]]
    /\ UNCHANGED ClusterVars

\* GET /cleanup on the status server
cleanupHandler(p) == Begin(p, "cleanup")

\* dqlite calls the hook on the leader
newRolesAdjustmentHook(p) == Begin(p, "hook")

\* mutant: voters are probed like the other nodes
DialVoters(p) ==
    LET q == cluster.pass[p] IN
    /\ q.pc = "probe"
    /\ q.i <= Len(q.nodes)
    /\ \E dialErr \in BOOLEAN :
         cluster' = [cluster EXCEPT !.pass[p] =
            IF q.kind = "hook" /\ q.nodes[q.i].ID = cluster.leader
            THEN [q EXCEPT !.i = @ + 1]
            ELSE IF dialErr
            THEN [q EXCEPT !.pc = "remove", !.dialErr = TRUE]
            ELSE [q EXCEPT !.i = @ + 1]]
    /\ UNCHANGED ClusterVars

\* the loop body up to net.DialTimeout: the leader (hook) and the voters are
\* skipped, a node that answers is left alone
Dial(p) ==
    LET q == cluster.pass[p] IN
    /\ q.pc = "probe"
    /\ q.i <= Len(q.nodes)
    /\ \E dialErr \in BOOLEAN :
         cluster' = [cluster EXCEPT !.pass[p] =
            IF q.kind = "hook" /\ q.nodes[q.i].ID = cluster.leader
            THEN [q EXCEPT !.i = @ + 1]
            ELSE IF q.nodes[q.i].Role = "Voter"
            THEN [q EXCEPT !.i = @ + 1]
            ELSE IF dialErr
            THEN [q EXCEPT !.pc = "remove", !.dialErr = TRUE]
            ELSE [q EXCEPT !.i = @ + 1]]
    /\ UNCHANGED ClusterVars

\* c.Remove(ctx, node.ID), in the hook after a.FindLeader: the handler goes on
\* after an error, the hook returns it
Remove(p) ==
    LET q == cluster.pass[p]
        node == q.nodes[q.i]
    IN
    /\ q.pc = "remove"
    /\ \E err \in BOOLEAN :
         IF err \/ node.ID \notin cluster.members
         THEN cluster' = [cluster EXCEPT !.pass[p] =
                 IF q.kind = "hook" THEN [q EXCEPT !.pc = "done", !.err = TRUE]
                 ELSE [q EXCEPT !.pc = "probe", !.i = @ + 1, !.dialErr = FALSE]]
         ELSE cluster' = [cluster EXCEPT
                 !.members = @ \ {node.ID},
                 !.removed = @ \cup {[ID |-> node.ID, Role |-> node.Role,
                                       listed |-> Len(q.nodes), by |-> q.kind,
                                       dialErr |-> q.dialErr]},
                 !.pass[p] = [q EXCEPT !.pc = "probe", !.i = @ + 1, !.dialErr = FALSE]]
    /\ UNCHANGED ClusterVars

\* the loop ends: "OK", return nil
PassEnd(p) ==
    LET q == cluster.pass[p] IN
    /\ \/ q.pc = "probe" /\ q.i > Len(q.nodes)
       \/ q.pc = "done"
    /\ cluster' = [cluster EXCEPT !.pass[p] = IdlePass]
    /\ UNCHANGED ClusterVars

ClusterNext ==
    \/ \E p \in Passes : cleanupHandler(p)
    \/ \E p \in Passes : newRolesAdjustmentHook(p)
    \/ \E p \in Passes : Dial(p)
    \/ \E p \in Passes : Remove(p)
    \/ \E p \in Passes : PassEnd(p)

(***************************************************************************)
(* sqlitefs: Fs.Create, Fs.Open and the File handles                       *)
(***************************************************************************)

\* bytes a file holds, at most
MaxData == 2

\* the flags of package os
O_RDONLY == 0
O_WRONLY == 1
O_RDWR == 2
O_CREATE == 64
O_TRUNC == 512

\* the File values in use at one time
FsHandles == {1, 2}

\* names passed to Create and Open
FsNames == {"foo.txt", "/x/../foo.txt", ".\\foo.txt", "nodir/foo.txt"}

\* clean(p): "\" becomes "/", the path is made absolute and cleaned
clean(p) ==
    LET parts == Split(ReplaceAll(p, "\\", "/"), "/")
        Kept[n \in 0..Len(parts)] ==
            IF n = 0 THEN <<>>
            ELSE IF parts[n] \in {"", "."} THEN Kept[n - 1]
            ELSE IF parts[n] = ".."
                 THEN SubSeq(Kept[n - 1], 1, Len(Kept[n - 1]) - 1)
                 ELSE Append(Kept[n - 1], parts[n])
    IN  "/" \o Join(Kept[Len(parts)], "/")

\* path.Dir of a cleaned path
Dir(name) ==
    LET parts == Split(name, "/") IN
    IF Len(parts) <= 2 THEN "/" ELSE Join(SubSeq(parts, 1, Len(parts) - 1), "/")

\* no File in the slot
NoFile ==
    [open |-> FALSE, name |-> "", data |-> <<>>, offset |-> 0, mode |-> O_RDONLY,
     isDir |-> FALSE, modified |-> FALSE, err |-> "",
     \* history: the bytes written through the File, the bytes read through
     \* it, whether a Read met io.EOF, and what the row's writer had written
     wrote |-> <<>>, got |-> <<>>, eof |-> FALSE, src |-> <<>>,
     \* the names the Readdir calls with count > 0 returned, and the last
     \* Readdir: its count, the names and the error it returned
     listed |-> <<>>, rd |-> [count |-> -1, infos |-> <<>>, err |-> ""]]

\* New(db, table): initSchema leaves the root directory
NewFs ==
    [table |-> [path \in {"/"} |-> [data |-> <<>>, is_dir |-> TRUE, by |-> <<>>]],
     file |-> [h \in FsHandles |-> NoFile],
     \* the last call on the Fs: its name, its arguments and its error
     call |-> [op |-> "", name |-> "", to |-> "", err |-> ""]]

FsVars ==
    <<pin, now, cache, validation, req, orders, budget, call, StaticRecords, dnsCall,
      proc, cluster>>

\* Fs.Create: INSERT OR REPLACE an empty file, a File open for reading and writing
FsCreate(h) ==
    /\ ~fs.file[h].open
    /\ \E p \in FsNames :
         LET name == clean(p) IN
         IF Dir(name) # "/" /\ Dir(name) \notin DOMAIN fs.table
         THEN UNCHANGED fs
         ELSE fs' = [fs EXCEPT
                 !.table = Upsert(@, name, [data |-> <<>>, is_dir |-> FALSE, by |-> <<>>]),
                 !.file[h] = [NoFile EXCEPT !.open = TRUE, !.name = name,
                                            !.mode = O_RDWR + O_CREATE + O_TRUNC]]
    /\ UNCHANGED FsVars

\* Fs.Open: OpenFile(name, os.O_RDONLY, 0)
FsOpen(h, p) ==
    /\ ~fs.file[h].open
    /\   LET name == clean(p) IN
         IF name \notin DOMAIN fs.table
         THEN UNCHANGED fs
         ELSE fs' = [fs EXCEPT
                 !.file[h] = [NoFile EXCEPT !.open = TRUE, !.name = name,
                                            !.data = fs.table[name].data,
                                            !.mode = O_RDONLY,
                                            !.isDir = fs.table[name].is_dir,
                                            !.src = fs.table[name].by]]
    /\ UNCHANGED FsVars

\* mutant: the mode of the File is not looked at
FileWriteAnyMode(h) ==
    LET f == fs.file[h] IN
    /\ f.open
    /\ \E p \in SeqsUpTo({1, 2}, MaxData) :
         /\ f.offset + Len(p) <= MaxData
         /\ LET end == f.offset + Len(p)
                data == [n \in 1..(IF end > Len(f.data) THEN end ELSE Len(f.data)) |->
                            IF n > f.offset /\ n <= end THEN p[n - f.offset]
                            ELSE IF n <= Len(f.data) THEN f.data[n] ELSE 0]
            IN  fs' = [fs EXCEPT !.file[h] =
                          [f EXCEPT !.data = data, !.offset = end, !.modified = TRUE,
                                    !.wrote = @ \o p]]
    /\ UNCHANGED FsVars

\* File.Write: refused unless O_WRONLY or O_RDWR is set; else p is copied to
\* data at offset, data grows if it must, offset advances, modified is set
FileWrite(h) ==
    LET f == fs.file[h] IN
    /\ f.open
    /\ \E p \in SeqsUpTo({1, 2}, MaxData) :
         /\ f.offset + Len(p) <= MaxData
         /\ IF (f.mode \div O_WRONLY) % 2 = 0 /\ (f.mode \div O_RDWR) % 2 = 0
            THEN fs' = [fs EXCEPT !.file[h].err = "file not open for writing"]
            ELSE LET end == f.offset + Len(p)
                     data == [n \in 1..(IF end > Len(f.data) THEN end ELSE Len(f.data)) |->
                                 IF n > f.offset /\ n <= end THEN p[n - f.offset]
                                 ELSE IF n <= Len(f.data) THEN f.data[n] ELSE 0]
                 IN  fs' = [fs EXCEPT !.file[h] =
                               [f EXCEPT !.data = data, !.offset = end,
                                         !.modified = TRUE, !.wrote = @ \o p]]
    /\ UNCHANGED FsVars

\* File.Read into a buffer of len(p) = size: io.EOF at the end of data, else
\* copy(p, f.data[f.offset:])
FileRead(h) ==
    LET f == fs.file[h] IN
    /\ f.open
    /\ \E size \in 1..MaxData :
         IF f.offset >= Len(f.data)
         THEN fs' = [fs EXCEPT !.file[h].eof = TRUE]
         ELSE LET n == IF size < Len(f.data) - f.offset THEN size
                       ELSE Len(f.data) - f.offset
              IN  fs' = [fs EXCEPT !.file[h] =
                            [f EXCEPT !.offset = @ + n,
                                      !.got = @ \o SubSeq(f.data, f.offset + 1,
                                                           f.offset + n)]]
    /\ UNCHANGED FsVars

\* File.Close: UPDATE ... SET data = f.data WHERE path = f.name, if modified
Persisted(f) ==
    IF f.modified /\ f.name \in DOMAIN fs.table
    THEN [fs.table EXCEPT ![f.name].data = f.data, ![f.name].by = f.wrote]
    ELSE fs.table

\* File.Sync: return f.Close()
FileSync(h) ==
    /\ fs.file[h].open
    /\ fs' = [fs EXCEPT !.table = Persisted(fs.file[h])]
    /\ UNCHANGED FsVars

\* File.Close, after which the File is not used again
FileClose(h) ==
    /\ fs.file[h].open
    /\ fs' = [fs EXCEPT !.table = Persisted(fs.file[h]), !.file[h] = NoFile]
    /\ UNCHANGED FsVars

FsNext ==
    \/ \E h \in FsHandles : FsCreate(h)
    \/ \E h \in FsHandles, p \in FsNames : FsOpen(h, p)
    \/ \E h \in FsHandles : FileWrite(h)
    \/ \E h \in FsHandles : FileRead(h)
    \/ \E h \in FsHandles : FileSync(h)
    \/ \E h \in FsHandles : FileClose(h)

(***************************************************************************)
(* sqlitefs: the directory tree                                            *)
(***************************************************************************)

\* names passed to the calls on the Fs
TreeNames == {"/", "a", "a/b", "a/b/c", "f"}

\* names passed to the calls on the Fs while directories are listed
DirNames == {"/", "d", "d/x", "d/y", "d/z", "d/x/w"}

\* clean, worked out once for the names the calls meet
Cleaned ==
    [p \in TreeNames \cup DirNames \cup {clean(x) : x \in TreeNames \cup DirNames} |->
        clean(p)]

\* the LIKE of SQLite: "%" is any run of bytes, "_" any one byte, letters
\* of ASCII match in either case
RECURSIVE Like(_, _)
Like(s, pattern) ==
    IF pattern = "" THEN s = ""
    ELSE LET c == SubSeq(pattern, 1, 1)
             rest == SubSeq(pattern, 2, Len(pattern))
         IN  IF c = "%"
             THEN Like(s, rest) \/ (s # "" /\ Like(SubSeq(s, 2, Len(s)), pattern))
             ELSE /\ s # ""
                  /\ c = "_" \/ ToLower(SubSeq(s, 1, 1)) = ToLower(c)
                  /\ Like(SubSeq(s, 2, Len(s)), rest)

\* Fs.Stat: os.ErrNotExist unless the row exists
Stat(table, name) ==
    IF Cleaned[name] \in DOMAIN table
    THEN [err |-> "", isDir |-> table[Cleaned[name]].is_dir]
    ELSE [err |-> "file does not exist", isDir |-> FALSE]

\* Fs.Mkdir: an error if the path exists, else INSERT of a directory row
Mkdir(table, p) ==
    LET name == Cleaned[p] IN
    IF Stat(table, name).err = ""
    THEN [err |-> "directory already exists", table |-> table]
    ELSE [err |-> "",
          table |-> Upsert(table, name, [data |-> <<>>, is_dir |-> TRUE, by |-> <<>>])]

\* Fs.MkdirAll: every prefix of the cleaned path that Stat does not find is
\* made with Mkdir, the first error ends the loop
MkdirAll(table, p) ==
    LET parts == SelectSeq(Split(Cleaned[p], "/"), LAMBDA part : part \notin {"", "."})
        Loop[n \in 0..Len(parts)] ==
            IF n = 0 THEN [err |-> "", table |-> table]
            ELSE LET before == Loop[n - 1]
                     currentPath == Join(SubSeq(parts, 1, n), "/")
                 IN  IF before.err # "" THEN before
                     ELSE IF Stat(before.table, currentPath).err = "" THEN before
                     ELSE Mkdir(before.table, currentPath)
    IN  Loop[Len(parts)]

TreeVars ==
    <<pin, now, cache, validation, req, orders, budget, call, StaticRecords, dnsCall,
      proc, cluster>>

\* Fs.Create and Close of the File it returns, nothing written through it
FsCreateFile(p) ==
        LET name == Cleaned[p] IN
        /\ IF Dir(name) # "/" /\ Stat(fs.table, Dir(name)).err # ""
           THEN fs' = [fs EXCEPT !.call = [op |-> "Create", name |-> name, to |-> "",
                                           err |-> "parent directory does not exist"]]
           ELSE fs' = [fs EXCEPT
                   !.table = Upsert(@, name, [data |-> <<>>, is_dir |-> FALSE, by |-> <<>>]),
                   !.call = [op |-> "Create", name |-> name, to |-> "", err |-> ""]]
        /\ UNCHANGED TreeVars

FsMkdir(p) ==
        LET made == Mkdir(fs.table, p) IN
        /\ fs' = [fs EXCEPT !.table = made.table,
                            !.call = [op |-> "Mkdir", name |-> Cleaned[p], to |-> "",
                                      err |-> made.err]]
        /\ UNCHANGED TreeVars

FsMkdirAll(p) ==
        LET made == MkdirAll(fs.table, p) IN
        /\ fs' = [fs EXCEPT !.table = made.table,
                            !.call = [op |-> "MkdirAll", name |-> Cleaned[p], to |-> "",
                                      err |-> made.err]]
        /\ UNCHANGED TreeVars

\* Fs.Remove: os.ErrNotExist without a row; a directory is refused if
\* COUNT(*) WHERE path LIKE name + "/%" AND path != name is not 0; else DELETE
FsRemove(p) ==
        LET name == Cleaned[p]
            count == Cardinality({path \in DOMAIN fs.table :
                                     Like(path, name \o "/%") /\ path # name})
            err == IF name \notin DOMAIN fs.table THEN "file does not exist"
                   ELSE IF fs.table[name].is_dir /\ count > 0 THEN "directory not empty"
                   ELSE ""
        IN  /\ fs' = [fs EXCEPT
                   !.table = IF err # "" THEN @
                             ELSE [path \in DOMAIN @ \ {name} |-> @[path]],
                   !.call = [op |-> "Remove", name |-> name, to |-> "", err |-> err]]
            /\ UNCHANGED TreeVars

\* Fs.RemoveAll: DELETE ... WHERE path = ? OR path LIKE path + "/%"
FsRemoveAll(p) ==
        LET name == Cleaned[p]
            kept == {path \in DOMAIN fs.table :
                        ~(path = name \/ Like(path, name \o "/%"))}
        IN  /\ fs' = [fs EXCEPT
                   !.table = [path \in kept |-> @[path]],
                   !.call = [op |-> "RemoveAll", name |-> name, to |-> "", err |-> ""]]
            /\ UNCHANGED TreeVars

\* mutant: the UPDATE runs without the Stat of oldname
FsRenameNoStat(p, q) ==
    LET oldname == Cleaned[p]
        newname == Cleaned[q]
        err == IF oldname \in DOMAIN fs.table /\ newname # oldname
                  /\ newname \in DOMAIN fs.table
               THEN "UNIQUE constraint failed"
               ELSE ""
    IN  /\ fs' = [fs EXCEPT
               !.table = IF err # "" \/ oldname \notin DOMAIN @ THEN @
                         ELSE [path \in (DOMAIN @ \ {oldname}) \cup {newname} |->
                                  IF path = newname THEN @[oldname] ELSE @[path]],
               !.call = [op |-> "Rename", name |-> oldname, to |-> newname,
                         err |-> err]]
        /\ UNCHANGED TreeVars

\* Fs.Rename: the error of Stat(oldname), else UPDATE ... SET path = newname
\* WHERE path = oldname, which the primary key refuses if newname is the
\* path of another row
FsRename(p, q) ==
        LET oldname == Cleaned[p]
            newname == Cleaned[q]
            err == IF Stat(fs.table, oldname).err # "" THEN Stat(fs.table, oldname).err
                   ELSE IF newname # oldname /\ newname \in DOMAIN fs.table
                   THEN "UNIQUE constraint failed"
                   ELSE ""
        IN  /\ fs' = [fs EXCEPT
                   !.table = IF err # "" THEN @
                             ELSE [path \in (DOMAIN @ \ {oldname}) \cup {newname} |->
                                      IF path = newname THEN @[oldname] ELSE @[path]],
                   !.call = [op |-> "Rename", name |-> oldname, to |-> newname,
                             err |-> err]]
            /\ UNCHANGED TreeVars

TreeNext ==
    \/ \E p \in TreeNames : FsCreateFile(p)
    \/ \E p \in TreeNames : FsMkdir(p)
    \/ \E p \in TreeNames : FsMkdirAll(p)
    \/ \E p \in TreeNames : FsRemove(p)
    \/ \E p \in TreeNames : FsRemoveAll(p)
    \/ \E p \in TreeNames, q \in TreeNames : FsRename(p, q)

\* entries a Readdir call returns, at most
MaxCount == 3

\* the bytes of a path, in the order of their values
Alphabet == "./0123456789abcdefghijklmnopqrstuvwxyz"

\* a < b in the BINARY collation
RECURSIVE Less(_, _)
Less(a, b) ==
    IF a = "" THEN b # ""
    ELSE IF b = "" THEN FALSE
    ELSE IF SubSeq(a, 1, 1) = SubSeq(b, 1, 1)
         THEN Less(SubSeq(a, 2, Len(a)), SubSeq(b, 2, Len(b)))
         ELSE (CHOOSE i \in 1..Len(Alphabet) : SubSeq(Alphabet, i, i) = SubSeq(a, 1, 1))
               < (CHOOSE i \in 1..Len(Alphabet) : SubSeq(Alphabet, i, i) = SubSeq(b, 1, 1))

\* ORDER BY path
RECURSIVE OrderBy(_)
OrderBy(paths) ==
    IF paths = {} THEN <<>>
    ELSE LET first == CHOOSE x \in paths : \A y \in paths \ {x} : Less(x, y)
         IN  <<first>> \o OrderBy(paths \ {first})

\* the paths the calls can store, ordered once
ByPath == OrderBy({Cleaned[p] : p \in DOMAIN Cleaned})

\* filepath.Base of a cleaned path
Base(path) ==
    LET parts == Split(path, "/") IN
    IF parts[Len(parts)] = "" THEN "/" ELSE parts[Len(parts)]

\* File.Readdir(count): "not a directory" unless isDir; the rows WHERE path
\* LIKE name + "/%" AND path != name AND path NOT LIKE name + "/%/%" ORDER
\* BY path; all of them from offset on if count <= 0, else at most count
\* of them, offset moved past them, io.EOF if there is none
FileReaddir(h) ==
    LET f == fs.file[h] IN
    /\ f.open
    /\ \E count \in 0..MaxCount :
         IF ~f.isDir
         THEN fs' = [fs EXCEPT !.file[h].rd =
                        [count |-> count, infos |-> <<>>, err |-> "not a directory"]]
         ELSE LET allInfos ==
                      SelectSeq(ByPath, LAMBDA path :
                          /\ path \in DOMAIN fs.table
                          /\ Like(path, f.name \o "/%")
                          /\ path # f.name
                          /\ ~Like(path, f.name \o "/%/%"))
                  start == f.offset
                  end == IF start + count > Len(allInfos) THEN Len(allInfos)
                         ELSE start + count
                  infos == [n \in 1..((IF count <= 0 THEN Len(allInfos) ELSE end) - start)
                               |-> Base(allInfos[start + n])]
              IN  IF count <= 0
                  THEN fs' = [fs EXCEPT !.file[h].rd =
                                 [count |-> count, infos |-> infos, err |-> ""]]
                  ELSE fs' = [fs EXCEPT !.file[h] =
                                 [f EXCEPT !.offset = end,
                                           !.listed = @ \o infos,
                                           !.rd = [count |-> count, infos |-> infos,
                                                   err |-> IF infos = <<>> THEN "EOF"
                                                           ELSE ""]]]
    /\ UNCHANGED FsVars

\* the tree is built, then directories are opened and listed; the tree is
\* not changed while a File is open
DirNext ==
    \/ \E p \in DirNames :
          /\ \A h \in FsHandles : ~fs.file[h].open
          /\ FsCreateFile(p)
    \/ \E p \in DirNames :
          /\ \A h \in FsHandles : ~fs.file[h].open
          /\ FsMkdirAll(p)
    \/ \E p \in DirNames : FsOpen(1, p)
    \/ FileReaddir(1)
    \/ FileClose(1)


(***************************************************************************)
(* Specifications                                                          *)
(***************************************************************************)

PinOff ==
    pin = [op |-> "off", kind |-> "csr", origin |-> Origin, key |-> JunkData,
           csrData |-> JunkData, hostname |-> NoResult, res |-> NoResult]

NoBudget == [slots |-> 0, faults |-> 0, reqs |-> 0, keys |-> {}, large |-> FALSE]

Boot ==
    /\ now = BootTime
    /\ cache = EmptyTable
    /\ validation = EmptyTable
    /\ req = [r \in Reqs |-> IdleReq]
    /\ orders = 0
    /\ call = NoCall
    /\ dnsCall = NoDNS

\* the parts of the process a specification leaves alone
ProcBoot == proc = NewProc(<<"dqlite">>)
ClusterBoot == cluster = NewCluster(3, 3)
FsBoot == fs = NewFs

\* what a run may do: requests one at a time that meet up to MaxFaults failures,
\* requests side by side that meet up to MaxRaceFaults, one request more
\* side by side with no failure, requests one at a time of two clients
\* with a key each and no failure, or requests one at a time of a client
\* that also posts bodies larger than 10 KiB
Scenarios ==
    {[slots |-> 1, faults |-> MaxFaults, reqs |-> MaxReqs, keys |-> {"priv1"},
      large |-> FALSE],
     [slots |-> Cardinality(Reqs), faults |-> MaxRaceFaults, reqs |-> MaxReqs,
      keys |-> {"priv1"}, large |-> FALSE],
     [slots |-> Cardinality(Reqs), faults |-> 0, reqs |-> MaxReqs + 1,
      keys |-> {"priv1"}, large |-> FALSE],
     [slots |-> 1, faults |-> 0, reqs |-> MaxReqs, keys |-> PrivKeys, large |-> FALSE],
     [slots |-> 1, faults |-> MaxRaceFaults, reqs |-> MaxReqs, keys |-> {"priv1"},
      large |-> TRUE]}

Init ==
    /\ PinOff
    /\ Boot
    /\ ProcBoot /\ ClusterBoot /\ FsBoot
    /\ StaticRecords = Startup(ZoneFileBase)
    /\ budget \in Scenarios

Next ==
    \/ \E r \in Reqs : CertFromCSR(r)
    \/ \E r \in Reqs : CertFromKey(r)
    \/ \E r \in Reqs : CertForHostname(r)
    \/ \E r \in Reqs : Return(r)
    \/ HostnameFromCSR
    \/ HostnameFromKey
    \/ CsrFromKey
    \/ \E r \in Reqs : HostnameFromCert(r)
    \/ \E r \in Reqs : CacheCheck(r)
    \/ \E r \in Reqs : AuthorizeOrder(r)
    \/ \E r \in Reqs : GetAuthorization(r)
    \/ \E r \in Reqs : SetRecord(r)
    \/ \E r \in Reqs : WaitPropagation(r)
    \/ \E r \in Reqs : Accept(r)
    \/ \E r \in Reqs : WaitAuthorization(r)
    \/ \E r \in Reqs : Finalize(r)
    \/ \E r \in Reqs : Persist(r)
    \/ \E r \in Reqs : Wake(r)
    \/ \E r \in Reqs : Cancel(r)
    \/ Tick

Spec == Init /\ [][Next]_vars

InitPin ==
    /\ Boot
    /\ ProcBoot /\ ClusterBoot /\ FsBoot
    /\ StaticRecords = Startup(ZoneFileBase)
    /\ budget = NoBudget
    /\ PinInit

SpecPin == InitPin /\ [][PinNext]_vars

InitCache ==
    /\ Boot
    /\ ProcBoot /\ ClusterBoot /\ FsBoot
    /\ StaticRecords = Startup(ZoneFileBase)
    /\ budget = NoBudget
    /\ PinOff

SpecCache == InitCache /\ [][CacheNext]_vars

InitDNS ==
    /\ Boot
    /\ ProcBoot /\ ClusterBoot /\ FsBoot
    /\ budget = [NoBudget EXCEPT !.reqs = MaxSets]
    /\ PinOff
    /\ \E zoneFile \in ZoneFiles : StaticRecords = Startup(zoneFile)

SpecDNS == InitDNS /\ [][DNSNext]_vars

InitShutdown ==
    /\ Boot
    /\ \E handlers \in SeqsUpTo(HookNames, MaxHooks) : proc = NewProc(handlers)
    /\ ClusterBoot /\ FsBoot
    /\ StaticRecords = Startup(ZoneFileBase)
    /\ budget = NoBudget
    /\ PinOff

SpecShutdown == InitShutdown /\ [][ShutdownNext]_vars

InitCluster ==
    /\ Boot
    /\ \E size \in 3..MaxNodes, voters \in 1..3 : cluster = NewCluster(size, voters)
    /\ ProcBoot /\ FsBoot
    /\ StaticRecords = Startup(ZoneFileBase)
    /\ budget = NoBudget
    /\ PinOff

SpecCluster == InitCluster /\ [][ClusterNext]_vars

InitFs == InitCache

SpecFs == InitFs /\ [][FsNext]_vars

\* the table after New, or after New, Create("f"), Write of two bytes, Close
InitTree ==
    /\ Boot
    /\ ProcBoot /\ ClusterBoot
    /\ StaticRecords = Startup(ZoneFileBase)
    /\ budget = NoBudget
    /\ PinOff
    /\ \/ fs = NewFs
       \/ fs = [NewFs EXCEPT
                   !.table = Upsert(@, "/f", [data |-> <<1, 2>>, is_dir |-> FALSE,
                                            by |-> <<1, 2>>])]

SpecTree == InitTree /\ [][TreeNext]_vars

InitDir == InitCache

SpecDir == InitDir /\ [][DirNext]_vars

(***************************************************************************)
(* Claims                                                                  *)
(***************************************************************************)

\* C1: CSRPinnedBaseName returns a base name only if the CSR parses, asserts
\* at least one name, and every asserted name (CN, DNS, email, IP as string,
\* URI) equals "*." + pin(public key) + "." + origin; the base name returned
\* is that name without "*."; zero names or any differing name give an error.
C1_PinStrict ==
    pin.op = "validated" =>
        LET d == pin.csrData
            parsed == d.fmt = "der-csr"
            c == d.csr
            names == (IF c.cn = "" THEN {} ELSE {c.cn})
                     \cup {c.dns[i] : i \in 1..Len(c.dns)}
                     \cup {c.email[i] : i \in 1..Len(c.email)}
                     \cup {IPString(c.ip[i]) : i \in 1..Len(c.ip)}
                     \cup {c.uri[i] : i \in 1..Len(c.uri)}
            expected == "*." \o SubSeq(Sha256Hex(c.pub), 1, 32) \o "."
                        \o SubSeq(Sha256Hex(c.pub), 33, 64) \o "." \o pin.origin
        IN  IF parsed /\ names # {} /\ \A n \in names : n = expected
            THEN pin.res.ok /\ "*." \o pin.res.val = expected
            ELSE ~pin.res.ok

\* C1 witness: the correctly pinned name with one more name beside it was
\* validated and rejected.
C1_Witness ==
    /\ pin.op = "validated"
    /\ pin.csrData.fmt = "der-csr"
    /\ pin.origin = Origin
    /\ pin.csrData.csr.pub = "pub1"
    /\ pin.csrData.csr.dns = <<PinnedWildcard("pub1", Origin), "*.attacker.tls.page">>
    /\ ~pin.res.ok

\* C2: for every ECDSA key and origin, the CSR of GenerateCSR(K, Hostname(K, O))
\* is accepted by CSRPinnedBaseName(., O) and the base name returned is
\* Hostname(K, O) exactly.
C2_RoundTrip ==
    pin.op = "roundtrip" =>
        /\ pin.hostname.ok
        /\ pin.res.ok
        /\ pin.res.val = pin.hostname.val

\* C2 witness: the round trip of the first key under example.com gave the
\* hostname of the client library's test.
C2_Witness ==
    /\ pin.op = "roundtrip"
    /\ pin.key = KeyPEM("priv1")
    /\ pin.origin = "example.com"
    /\ pin.res.ok
    /\ pin.res.val =
         "9b7d8f4b4f45183149c1b666d08d1f8c.bfcd0704a087908e509c39b1c2b98cc5.example.com"

\* C3: every cert-cache row's CSR has a public key whose pin gives the row's
\* subject, every RequestCert call runs under the pinned base name of its
\* CSR's key, and every order is for the one identifier "*." + that base.
C3_KeyBinding ==
    /\ \A s \in DOMAIN cache :
          /\ cache[s].csr.fmt = "der-csr"
          /\ s = "*." \o SubSeq(Sha256Hex(cache[s].csr.csr.pub), 1, 32) \o "."
                 \o SubSeq(Sha256Hex(cache[s].csr.csr.pub), 33, 64) \o "." \o Origin
    /\ \A r \in Reqs :
          req[r].baseName # "" =>
             /\ req[r].csr.fmt = "der-csr"
             /\ req[r].baseName =
                   SubSeq(Sha256Hex(req[r].csr.csr.pub), 1, 32) \o "."
                   \o SubSeq(Sha256Hex(req[r].csr.csr.pub), 33, 64) \o "." \o Origin
             /\ req[r].order # 0 => req[r].ident = "*." \o req[r].baseName
             /\ req[r].encoded # NilBytes =>
                   /\ req[r].encoded.bytes.cert.cn = "*." \o req[r].baseName
                   /\ req[r].encoded.bytes.cert.pub = req[r].csr.csr.pub

\* C3 witness: an order was finalized and its chain stored under the pinned
\* subject of its CSR's key.
C3_Witness ==
    \E r \in Reqs :
        /\ req[r].pc = "done"
        /\ req[r].status = 200
        /\ req[r].order # 0
        /\ req[r].ident = PinnedWildcard("pub1", Origin)
        /\ req[r].ident \in DOMAIN cache
        /\ cache[req[r].ident].cert = req[r].out

\* C4: a RequestCert attempt that checks the cache while it holds a chain for
\* "*." + base with more than 60 days left opens no order, writes no
\* validation record, leaves the cache as it is, and, its lookup succeeding,
\* returns exactly the cached chain.
C4_FreshCacheHit ==
    [][\A r \in Reqs :
          LET q == req[r]
              subject == "*." \o q.baseName
          IN  (/\ q.pc = "check"
               /\ req'[r].pc # "check"
               /\ subject \in DOMAIN cache
               /\ cache[subject].cert # NilBytes
               /\ cache[subject].expiry - now > 60 * Day)
              => /\ orders' = orders
                 /\ validation' = validation
                 /\ cache' = cache
                 /\ req'[r].pc \in {"done", "sleep"}
                 /\ req'[r].order = 0
                 /\ budget'.faults = budget.faults =>
                       /\ req'[r].pc = "done"
                       /\ req'[r].status = 200
                       /\ req'[r].out = cache[subject].cert]_vars

\* C4 witness: two calls side by side were both answered with the cached
\* chain, and the CA has seen the one order that produced it.
C4_Witness ==
    /\ orders = 1
    /\ \A r \in Reqs :
          /\ req[r].pc = "done"
          /\ req[r].status = 200
          /\ req[r].order = 0
          /\ req[r].attempts = 1
          /\ ("*." \o req[r].baseName) \in DOMAIN cache
          /\ req[r].out = cache["*." \o req[r].baseName].cert
          /\ req[r].out # NilBytes

\* C5: a new certificate is not issued for a base while a chain issued
\* earlier for that base has more than 60 days left: no call holds a newly
\* finalized chain while the cache holds another chain for the same subject
\* with more than MinLife to go.
C5_OnePerKey ==
    \A r \in Reqs :
        req[r].pc = "put" =>
            ~(/\ req[r].ident \in DOMAIN cache
              /\ cache[req[r].ident].cert # NilBytes
              /\ cache[req[r].ident].cert # req[r].encoded
              /\ cache[req[r].ident].expiry - now > 60 * Day)

\* C6: one RequestCert call makes at most ACMERetries attempts; a successful
\* attempt ends the call at once; a failed attempt other than the last is
\* followed by a sleep of ACMERetryDelay * 2^(attempt - 1); no sleep follows
\* the last attempt, whose error the call returns.
C6_RetryHonesty ==
    [][\A r \in Reqs :
          LET q == req[r]
              after == req'[r]
              ended == /\ q.pc \in {"check", "order", "authz", "setrec", "wait",
                                    "accept", "waitauthz", "finalize", "put"}
                       /\ after.pc \in {"sleep", "done"}
              ok == after.pc = "done" /\ after.status = 200
              stepErrors ==
                  CASE q.pc = "check" -> {"certificate cache error"}
                    [] q.pc = "order" -> {"failed to start certificate order"}
                    [] q.pc = "authz" -> {"failed to get authorization",
                                          "no DNS-01 challenge found",
                                          "failed to get DNS-01 challenge key"}
                    [] q.pc = "wait" -> {"context canceled"}
                    [] q.pc = "accept" -> {"failed to accept challenge"}
                    [] q.pc = "waitauthz" -> {"authorization failed"}
                    [] q.pc = "finalize" -> {"failed to finalize order"}
                    [] q.pc = "put" -> {"failed to save certificate to cache"}
                    [] OTHER -> {}
          IN  /\ after.attempts <= ACMERetries
              /\ Len(after.sleeps) <= ACMERetries - 1
              /\ \A n \in 1..Len(after.sleeps) :
                    after.sleeps[n] = ACMERetryDelay * 2^(n - 1)
              /\ after.pc = "sleep" => Len(after.sleeps) = after.attempts
              /\ (after.pc \notin {"idle", "sleep"} /\ after.attempts > 0) =>
                    Len(after.sleeps) = after.attempts - 1
              /\ (ended /\ ok) =>
                    /\ after.attempts = q.attempts
                    /\ after.sleeps = q.sleeps
                    /\ after.err = ""
              /\ (ended /\ ~ok) =>
                    IF q.attempts < ACMERetries
                    THEN /\ after.pc = "sleep"
                         /\ after.sleeps = Append(q.sleeps, q.delay)
                    ELSE /\ after.pc = "done"
                         /\ after.status = 500
                         /\ after.sleeps = q.sleeps
                         /\ after.err \in stepErrors
              /\ (q.pc = "sleep" /\ after.pc # "sleep") =>
                    /\ after.pc = "check"
                    /\ after.attempts = q.attempts + 1
                    /\ after.delay = 2 * q.delay]_vars

\* C6 witness: a call whose client stayed failed three attempts, slept 15 s
\* and 30 s between them, and returned the last attempt's error.
C6_Witness ==
    \E r \in Reqs :
        /\ req[r].pc = "done"
        /\ req[r].status = 500
        /\ ~req[r].ctxDone
        /\ req[r].attempts = 3
        /\ req[r].sleeps = <<15, 30>>
        /\ req[r].err = "failed to save certificate to cache"

\* C7: within an attempt the steps are strictly ordered; in particular Accept
\* is called for a challenge only after its validation record has been set
\* and the wait has elapsed, and the cache is written only after finalize
\* returned a chain.
C7_StepOrder ==
    \A r \in Reqs :
        /\ req[r].pc \in {"setrec", "wait", "accept", "waitauthz", "finalize", "put"}
              => req[r].order # 0
        /\ req[r].pc = "waitauthz" => ~req[r].failed
        /\ req[r].pc = "put" => req[r].encoded # NilBytes

\* C8: if any step of an attempt fails, no later step of that attempt is
\* executed: a call that has met an error in its attempt is sleeping before
\* the next attempt or has returned.
C8_ErrorAborts ==
    \A r \in Reqs : req[r].failed => req[r].pc \in {"sleep", "done"}

\* C9: once a row exists for a subject, PutCSR or PutKey for that subject
\* leaves its csr, cert and expiry as they were; a call adds at most the one
\* row keyed "*." + base of the CSR it was given.
C9_PutCSRMonotone ==
    call.op \in {"PutCSR", "PutKey"} =>
        /\ \A s \in DOMAIN call.before :
              s \in DOMAIN cache /\ cache[s] = call.before[s]
        /\ Cardinality(DOMAIN cache \ DOMAIN call.before) <= 1
        /\ \A s \in DOMAIN cache \ DOMAIN call.before :
              /\ cache[s].csr.fmt = "der-csr"
              /\ s = PinnedWildcard(cache[s].csr.csr.pub, Origin)
              /\ call.err = ""
        /\ call.err # "" => cache = call.before

\* C9 witness: PutCSR was given a second CSR of a subject whose row held
\* another CSR and a chain.
C9_Witness ==
    /\ call.op = "PutCSR"
    /\ call.err = ""
    /\ call.arg.fmt = "der-csr"
    /\ PinnedWildcard(call.arg.csr.pub, Origin) \in DOMAIN call.before
    /\ call.before[PinnedWildcard(call.arg.csr.pub, Origin)].cert # NilBytes
    /\ call.before[PinnedWildcard(call.arg.csr.pub, Origin)].csr # call.arg

\* C10: in a step in which no attempt persists a chain, the cert and expiry
\* of every existing row stay as they are and a row that appears has a null
\* cert and expiry 0.
C10_OnlyPutWritesCert ==
    [][(\A r \in Reqs : ~(req[r].pc = "put" /\ req'[r].pc # "put")) =>
          /\ \A s \in DOMAIN cache :
                /\ s \in DOMAIN cache'
                /\ cache'[s].cert = cache[s].cert
                /\ cache'[s].expiry = cache[s].expiry
          /\ \A s \in DOMAIN cache' \ DOMAIN cache :
                /\ cache'[s].cert = NilBytes
                /\ cache'[s].expiry = 0]_vars

\* C10 witness: a row made by PutCSR still has no chain while a call for its
\* subject has an order under way.
C10_Witness ==
    \E r \in Reqs :
        /\ req[r].pc = "finalize"
        /\ req[r].ident \in DOMAIN cache
        /\ cache[req[r].ident].cert = NilBytes
        /\ cache[req[r].ident].expiry = 0

\* C11: after a successful Put(csr, chain) the row keyed by the leaf's CN, or
\* by its first DNS SAN when the CN is empty, holds csr, the chain as given
\* and the leaf's NotAfter, and Get of that subject returns these values; a
\* chain whose first PEM block is missing, is no certificate or names nothing
\* makes Put fail and leaves the cache as it was.
C11_PutStoresLeaf ==
    call.op = "Put" =>
        IF /\ call.chain.fmt = "pem"
           /\ call.chain.bytes.fmt = "der-cert"
           /\ (call.chain.bytes.cert.cn # "" \/ Len(call.chain.bytes.cert.dns) > 0)
        THEN LET leaf == call.chain.bytes.cert
                 subject == IF leaf.cn # "" THEN leaf.cn ELSE leaf.dns[1]
             IN  /\ call.err = ""
                 /\ subject \in DOMAIN cache
                 /\ cache[subject] = [csr |-> call.arg, cert |-> call.chain,
                                      expiry |-> leaf.notAfter]
                 /\ Get(cache, subject) = [csr |-> call.arg, cert |-> call.chain,
                                           expiry |-> leaf.notAfter, err |-> ""]
        ELSE call.err # "" /\ cache = call.before

\* C11 witness: Put stored a chain whose leaf has no CN under its first DNS
\* SAN, over a row that held another CSR.
C11_Witness ==
    /\ call.op = "Put"
    /\ call.err = ""
    /\ call.chain.bytes.cert.cn = ""
    /\ call.chain.bytes.cert.dns[1] \in DOMAIN call.before
    /\ call.before[call.chain.bytes.cert.dns[1]].csr # call.arg
    /\ cache[call.chain.bytes.cert.dns[1]].expiry = BootTime + CertLife

\* C13: Get of a subject that has no row returns a nil csr, a nil cert, the
\* zero time and no error, and the cache is as it was before the call.
C13_GetMissing ==
    (call.op = "Get" /\ call.subject \notin DOMAIN call.before) =>
        /\ call.res.csr = NilBytes
        /\ call.res.cert = NilBytes
        /\ call.res.expiry = ZeroTime
        /\ call.res.err = ""
        /\ cache = call.before

\* C13 witness: Get was called for a subject without a row while the cache
\* held a row with a chain for another subject.
C13_Witness ==
    /\ call.op = "Get"
    /\ call.subject \notin DOMAIN call.before
    /\ \E s \in DOMAIN cache : cache[s].cert # NilBytes
    /\ call.res = NoRow

\* C12: in every reachable state no two rows of the cert cache hold a CSR of
\* the same public key, and every row is keyed "*." + the pinned base of its
\* CSR's key; a row that exists in one state exists in every later state:
\* no step of any endpoint, of RequestCert or of the cache removes a row.
C12_RowPerKey ==
    /\ [](\A s, t \in DOMAIN cache :
             /\ s = PinnedWildcard(cache[s].csr.csr.pub, Origin)
             /\ cache[s].csr.csr.pub = cache[t].csr.csr.pub => s = t)
    /\ [][\A s \in DOMAIN cache : s \in DOMAIN cache']_vars

\* C12 witness: two clients with a key each hold a row with an issued chain,
\* each under its own pinned name, after the second issuance replaced
\* nothing of the first.
C12_Witness ==
    /\ Cardinality(DOMAIN cache) = 2
    /\ \A s \in DOMAIN cache : cache[s].cert # NilBytes
    /\ orders = 2

\* C14: right after a successful SetValidationRecord(q, v) the store holds
\* the row (q, v) created at the moment of the Set, whatever q held before;
\* no row created more than 10 minutes before the Set remains; every row of
\* another qname created less than 10 minutes before the Set is unchanged.
C14_SetCollects ==
    dnsCall.op = "Set" =>
        /\ dnsCall.qname \in DOMAIN validation
        /\ validation[dnsCall.qname] =
              [value |-> dnsCall.value, created |-> dnsCall.at]
        /\ \A q \in DOMAIN validation :
              validation[q].created >= dnsCall.at - 10 * 60
        /\ \A q \in DOMAIN dnsCall.before \ {dnsCall.qname} :
              dnsCall.before[q].created > dnsCall.at - 10 * 60 =>
                  /\ q \in DOMAIN validation
                  /\ validation[q] = dnsCall.before[q]

\* C14 witness: a Set for one qname removed the row of another qname that was
\* eleven minutes old.
C14_Witness ==
    /\ dnsCall.op = "Set"
    /\ \E q \in DOMAIN dnsCall.before :
          /\ q # dnsCall.qname
          /\ dnsCall.before[q].created = dnsCall.at - 11 * 60
          /\ q \notin DOMAIN validation

\* C15: a read of qname q made more than 10 minutes after the last Set of q
\* finds nothing: GetValidationRecord(q) returns the empty string and the
\* TXT lookup of q has no answer.
C15_RowsExpire ==
    /\ (/\ dnsCall.op = "Get"
        /\ dnsCall.qname \in DOMAIN validation
        /\ dnsCall.at > validation[dnsCall.qname].created + 10 * 60)
       => dnsCall.res = NoValue
    /\ (/\ dnsCall.op = "Lookup"
        /\ dnsCall.qname \in DOMAIN validation
        /\ dnsCall.at > validation[dnsCall.qname].created + 10 * 60)
       => dnsCall.rr = <<>>

\* C16: the lookup of a canonical name that begins with "_acme-challenge."
\* is answered from the validation records alone: one TXT RR owned by the
\* name, with TTL 0 and the stored value, when a value is stored, and an
\* empty answer when none is, whatever the zone holds for the name.
C16_ChallengeFromStore ==
    (/\ dnsCall.op = "Lookup"
     /\ dnsCall.qname = CanonicalName(dnsCall.qname)
     /\ HasPrefix(dnsCall.qname, "_acme-challenge."))
    => IF dnsCall.qname \in DOMAIN validation
       THEN dnsCall.rr = << [name |-> dnsCall.qname, rrtype |-> "TXT", ttl |-> 0,
                             data |-> <<validation[dnsCall.qname].value>>] >>
       ELSE dnsCall.rr = <<>>

\* C16 witness: the zone holds a TXT record for the challenge name of a key
\* and the lookup of that name answered with the stored value only.
C16_Witness ==
    /\ dnsCall.op = "Lookup"
    /\ dnsCall.qname = ChallengeName(PinnedBase("pub1"))
    /\ dnsCall.qname \in DOMAIN StaticRecords
    /\ dnsCall.qname \in DOMAIN validation
    /\ Len(dnsCall.rr) = 1
    /\ dnsCall.rr[1].data = <<validation[dnsCall.qname].value>>

\* C17: for a name <label>.<32 hex>.<32 hex>.<origin>. with a label of 3 to
\* 45 characters of [0-9a-f-]: if the label with '.' for '-' is an IPv4
\* literal the answer is one A RR with that address, owned by the name, TTL
\* 2592000; else if the label with ':' for '-' is an IPv6 literal the answer
\* is one AAAA RR with that address and TTL 2592000. 203-0-113-1 gives
\* 203.0.113.1 and 0--1 gives ::1.
C17_Synthesis ==
    dnsCall.op = "Lookup" =>
        LET qname == CanonicalName(dnsCall.qname)
            parts == Split(qname, ".")
            v4 == parseIPv4(ReplaceAll(parts[1], "-", "."))
            v6 == parseIPv6(ReplaceAll(parts[1], "-", ":"))
        IN  wildcardDNSName(parts, Origin) =>
              /\ v4.ok =>
                    dnsCall.rr = << [name |-> qname, rrtype |-> "A", ttl |-> 2592000,
                                     data |-> <<v4.val[7] \div 256, v4.val[7] % 256,
                                                v4.val[8] \div 256, v4.val[8] % 256>>] >>
              /\ (~v4.ok /\ v6.ok) =>
                    dnsCall.rr = << [name |-> qname, rrtype |-> "AAAA",
                                     ttl |-> 2592000, data |-> v6.val] >>
              /\ parts[1] = "203-0-113-1" =>
                    /\ dnsCall.rr[1].rrtype = "A"
                    /\ dnsCall.rr[1].data = <<203, 0, 113, 1>>
              /\ parts[1] = "0--1" =>
                    /\ dnsCall.rr[1].rrtype = "AAAA"
                    /\ dnsCall.rr[1].data = <<0, 0, 0, 0, 0, 0, 0, 1>>

\* C17 witness: the lookup of 2001-db8-0--1 under a pinned base answered
\* AAAA 2001:db8::1.
C17_Witness ==
    /\ dnsCall.op = "Lookup"
    /\ dnsCall.qname = "2001-db8-0--1." \o PinnedBase("pub1") \o "."
    /\ Len(dnsCall.rr) = 1
    /\ dnsCall.rr[1].rrtype = "AAAA"
    /\ dnsCall.rr[1].data = <<8193, 3512, 0, 0, 0, 0, 0, 1>>

\* C18: when a name matches the synthesis pattern and its label is an IP
\* literal, the answer is the one synthesized record and nothing of the zone,
\* whatever the zone holds for the name or for a wildcard above it; when the
\* label is neither an IPv4 nor an IPv6 literal the answer is what the zone
\* gives for the name.
C18_SynthesisFirst ==
    dnsCall.op = "Lookup" =>
        LET qname == CanonicalName(dnsCall.qname)
            parts == Split(qname, ".")
            isIP == \/ parseIPv4(ReplaceAll(parts[1], "-", ".")).ok
                    \/ parseIPv6(ReplaceAll(parts[1], "-", ":")).ok
            zone == {WcQname(parts, i) : i \in 1..(Len(parts) - 1)} \cup {qname}
        IN  wildcardDNSName(parts, Origin) =>
              IF isIP
              THEN /\ Len(dnsCall.rr) = 1
                   /\ dnsCall.rr[1].rrtype \in {"A", "AAAA"}
                   /\ dnsCall.rr[1].ttl = SynthTTL
                   /\ \A w \in zone \cap DOMAIN StaticRecords :
                         \A j \in 1..Len(StaticRecords[w]) :
                            dnsCall.rr[1].data # StaticRecords[w][j].data
              ELSE /\ dnsCall.rr # <<>>
                   /\ \A j \in 1..Len(dnsCall.rr) :
                         \E w \in zone \cap DOMAIN StaticRecords :
                            \E k \in 1..Len(StaticRecords[w]) :
                               dnsCall.rr[j].data = StaticRecords[w][k].data

\* C18 witness: the zone holds an A record for 127-0-0-1 under a pinned base
\* and a wildcard for that base, and the lookup answered A 127.0.0.1 alone.
C18_Witness ==
    /\ dnsCall.op = "Lookup"
    /\ dnsCall.qname = "127-0-0-1." \o PinnedBase("pub1") \o "."
    /\ dnsCall.qname \in DOMAIN StaticRecords
    /\ ("*." \o PinnedBase("pub1") \o ".") \in DOMAIN StaticRecords
    /\ Len(dnsCall.rr) = 1
    /\ dnsCall.rr[1].data = <<127, 0, 0, 1>>

\* C19: for a name that neither the validation records nor the synthesis
\* answers: the zone's records for exactly that name are the answer when
\* there are any; otherwise the answer is the records of "*." + suffix(i) for
\* the smallest i from 1 on that has any, each with the name as its owner,
\* and it is empty when no level has records.
C19_StaticThenWildcard ==
    dnsCall.op = "Lookup" =>
        LET qname == CanonicalName(dnsCall.qname)
            parts == Split(qname, ".")
            levels == {i \in 1..(Len(parts) - 1) :
                          WcQname(parts, i) \in DOMAIN StaticRecords}
        IN  (~HasPrefix(qname, "_acme-challenge.")
             /\ LookupIP(qname, parts, Origin) = <<>>)
            => IF qname \in DOMAIN StaticRecords
               THEN dnsCall.rr = StaticRecords[qname]
               ELSE IF levels = {}
               THEN dnsCall.rr = <<>>
               ELSE LET i == CHOOSE i \in levels : \A k \in levels : i <= k
                        matches == StaticRecords[WcQname(parts, i)]
                    IN  /\ Len(dnsCall.rr) = Len(matches)
                        /\ \A j \in 1..Len(matches) :
                              /\ dnsCall.rr[j].name = qname
                              /\ dnsCall.rr[j].rrtype = matches[j].rrtype
                              /\ dnsCall.rr[j].ttl = matches[j].ttl
                              /\ dnsCall.rr[j].data = matches[j].data

\* C19 witness: a name two labels below *.sub.tls.page., with *.tls.page. in
\* the zone as well, was answered by the longer wildcard's record.
C19_Witness ==
    /\ dnsCall.op = "Lookup"
    /\ dnsCall.qname = "a.b.sub.tls.page."
    /\ "*.tls.page." \in DOMAIN StaticRecords
    /\ dnsCall.rr = << [name |-> "a.b.sub.tls.page.", rrtype |-> "TXT",
                        ttl |-> DefaultTTL, data |-> <<"sub">>] >>

\* C20: no step of the DNS backend changes StaticRecords: its keys and every
\* RR under them, the owner names of the wildcard RRs included, stay as they
\* were when the listeners started.
C20_ZoneFrozen ==
    [][StaticRecords' = StaticRecords]_vars

\* C20 witness: a lookup was answered from a wildcard with the queried name
\* as owner while the zone's wildcard record still has the wildcard as owner.
C20_Witness ==
    /\ dnsCall.op = "Lookup"
    /\ dnsCall.qname = "x.sub.tls.page."
    /\ Len(dnsCall.rr) = 1
    /\ dnsCall.rr[1].name = "x.sub.tls.page."
    /\ StaticRecords["*.sub.tls.page."][1].name = "*.sub.tls.page."

\* C21: Hostname(K, O) depends on K and O alone: a second call returns the
\* same string; the string is the first 32 and the last 32 of the 64
\* lower-case hex characters of the SHA-256 of K's public key, then O, joined
\* by dots; two keys with different fingerprints get different hostnames.
C21_PinFormat ==
    (pin.op = "named" /\ pin.hostname.ok) =>
        LET hex == Sha256Hex(PublicKey(pin.key.priv))
            labels == Split(pin.hostname.val, ".")
        IN  /\ Hostname(pin.key, pin.origin) = pin.hostname
            /\ Len(hex) = 64
            /\ AllIn(hex, HexChars)
            /\ labels = <<SubSeq(hex, 1, 32), SubSeq(hex, 33, 64)>>
                        \o Split(pin.origin, ".")
            /\ SubSeq(hex, 1, 32) \o SubSeq(hex, 33, 64) = hex
            /\ \A other \in KeyInputs :
                  (/\ Hostname(other, pin.origin).ok
                   /\ Sha256Hex(PublicKey(other.priv)) # hex)
                  => Hostname(other, pin.origin).val # pin.hostname.val

\* C21 witness: the second key's hostname under tls.page was computed and is
\* not the first key's.
C21_Witness ==
    /\ pin.op = "named"
    /\ pin.key = KeyPEM("priv2")
    /\ pin.origin = Origin
    /\ pin.hostname.ok
    /\ pin.hostname.val # Hostname(KeyPEM("priv1"), Origin).val
    /\ Len(pin.hostname.val) = 32 + 1 + 32 + 1 + Len(Origin)

(***************************************************************************)
(* C22: validation errors are answered 400                                 *)
(***************************************************************************)

\* C22: a request whose posted input fails validation (no PEM block where one
\* is needed, a key or CSR or certificate that does not parse, a CSR that
\* does not carry exactly the pinned name, a certificate without names) is
\* answered 400 by each of /hostname-from-cert, /hostname-from-csr,
\* /hostname-from-key, /csr-from-key, /cert-from-csr and /cert-from-key, and
\* never reaches RequestCert.
C22_Validation400 ==
    \A r \in Reqs :
        LET q == req[r]
            block == PemDecode(q.body)
            csr == IF ContainsDashes(q.body) /\ block.ok THEN block.val ELSE q.body
            cert == ParseCertificate(block.val)
            invalid ==
                CASE q.via \in {"hostname-from-csr", "cert-from-csr"} ->
                        \/ ContainsDashes(q.body) /\ ~block.ok
                        \/ ~CSRPinnedBaseName(csr, Origin).ok
                  [] q.via \in {"hostname-from-key", "csr-from-key", "cert-from-key"} ->
                        ~parsePrivateKey(q.body).ok
                  [] q.via = "hostname-from-cert" ->
                        \/ ~block.ok
                        \/ ~cert.ok
                        \/ cert.val.cn = "" /\ cert.val.dns = <<>>
                  [] OTHER -> FALSE
        IN  /\ (q.pc = "done" /\ invalid) => q.status = 400
            /\ q.baseName # "" => CSRPinnedBaseName(q.csr, Origin) = Ok(q.baseName)

(***************************************************************************)
(* C23: /cert/<base> without a stored CSR                                  *)
(***************************************************************************)

\* C23: a request to /cert/<base> whose base has no cert-cache row is answered
\* 404 (500 if the store fails the lookup) at once: it calls no RequestCert,
\* opens no order, writes no validation record and leaves the cache as it
\* is; for a base with a stored CSR the handler calls RequestCert with the
\* base and exactly the stored CSR.
C23_CertForHostname ==
    [][\A r \in Reqs :
          /\ (req[r].pc = "idle" /\ req'[r].pc = "done" /\ req'[r].via = "cert") =>
                /\ req'[r].status \in {404, 500}
                /\ req'[r].status = 500 <=> budget'.faults < budget.faults
                /\ req'[r].status = 404 =>
                      Get(cache, "*." \o req'[r].body.path).csr = NilBytes
                /\ req'[r].baseName = "" /\ req'[r].attempts = 0 /\ req'[r].order = 0
                /\ cache' = cache /\ validation' = validation /\ orders' = orders
          /\ CertForHostname(r) =>
                \/ req'[r].pc = "done" /\ req'[r].via = "cert"
                \/ /\ req'[r].pc = "check"
                   /\ "*." \o req'[r].baseName \in DOMAIN cache
                   /\ req'[r].csr = cache["*." \o req'[r].baseName].csr
                   /\ req'[r].csr # NilBytes
                   /\ cache' = cache]_vars

\* C23 witness: a /cert/<base> request was answered 404 while the cache held
\* a row of another base.
C23_Witness ==
    \E r \in Reqs :
        /\ req[r].pc = "done"
        /\ req[r].via = "cert"
        /\ req[r].status = 404
        /\ cache # EmptyTable
        /\ "*." \o req[r].body.path \notin DOMAIN cache

(***************************************************************************)
(* C24: the 10 KiB limit of /cert-from-csr                                 *)
(***************************************************************************)

\* C24: a request to /cert-from-csr whose body is larger than 10 KiB is
\* answered 413 and never validated or handed to RequestCert, whether its
\* length was declared or not.
C24_BodyLimit ==
    \A r \in Reqs :
        req[r].large =>
            /\ req[r].pc = "done"
            /\ req[r].status = 413
            /\ req[r].baseName = ""
            /\ req[r].attempts = 0

(***************************************************************************)
(* C25: the CSR of a certificate request is remembered                     *)
(***************************************************************************)

\* C25: once a request that carried a validly pinned CSR or key to
\* /cert-from-csr or /cert-from-key has been handled (its RequestCert call
\* has returned, with a chain or with an error), the cert cache holds a row
\* with a CSR under "*." + base, so that /cert/<base> finds it.
C25_CSRRemembered ==
    \A r \in Reqs :
        (req[r].pc = "done" /\ req[r].baseName # "") =>
            Get(cache, "*." \o req[r].baseName).csr # NilBytes

(***************************************************************************)
(* C26: shutdown                                                           *)
(***************************************************************************)

\* C26: on SIGINT the signal goroutine calls the registered shutdown hooks
\* one after the other in registration order, each exactly once, and exits
\* with code 0 only after the last; the dqlite hook calls Handover, then
\* Close, and calls Close also when Handover returned an error.
C26_Shutdown ==
    LET dq == SelectSeq(proc.ran, LAMBDA h : h = "dqlite") IN
    /\ Len(proc.ran) <= Len(proc.ProcessShutdownHandlers)
    /\ proc.ran = SubSeq(proc.ProcessShutdownHandlers, 1, Len(proc.ran))
    /\ proc.ran # <<>> => proc.sent > 0
    /\ proc.exit \in {-1, 0}
    /\ proc.exit = 0 <=> proc.pc = "exited"
    /\ proc.pc = "exited" => proc.ran = proc.ProcessShutdownHandlers
    /\ \A k \in 1..Len(proc.app) :
          proc.app[k].f = IF k % 2 = 1 THEN "Handover" ELSE "Close"
    /\ Len(proc.app) = 2 * Len(dq) - (IF proc.pc = "handover" THEN 2 ELSE 0)
                                   - (IF proc.pc = "close" THEN 1 ELSE 0)

\* C26 witness: the process has exited after a second SIGINT arrived during
\* the hooks; the dqlite hook, registered second, ran after the first hook,
\* its Handover failed and Close was called all the same.
C26_Witness ==
    /\ proc.pc = "exited"
    /\ proc.sent = 2
    /\ proc.c = 1
    /\ proc.ProcessShutdownHandlers = <<"other", "dqlite">>
    /\ proc.app = <<[f |-> "Handover", err |-> TRUE], [f |-> "Close", err |-> FALSE]>>

(***************************************************************************)
(* C27: cluster eviction                                                   *)
(***************************************************************************)

\* C27: a cleanup pass removes a node only if its list of the cluster had
\* more than 3 nodes, the node is listed with a role other than Voter and
\* the dial to the node failed; a pass that lists 3 nodes or fewer probes
\* and removes nothing, and no Voter is ever removed.
C27_Eviction ==
    /\ \A e \in cluster.removed :
          /\ e.listed > 3
          /\ e.Role # "Voter"
          /\ e.dialErr
          /\ e.ID \notin cluster.members
    /\ \A n \in 1..cluster.voters : n \in cluster.members
    /\ Cardinality(cluster.members) + Cardinality({e.ID : e \in cluster.removed}) >= 3
    /\ \A p \in Passes :
          LET q == cluster.pass[p] IN
          /\ q.pc \in {"probe", "remove"} => Len(q.nodes) > 3
          /\ q.pc = "remove" =>
                /\ q.dialErr
                /\ q.nodes[q.i].Role # "Voter"
                /\ q.kind = "hook" => q.nodes[q.i].ID # cluster.leader

\* C27 witness: of five nodes the two that do not vote were removed, by a
\* pass of each kind, and a pass begun on the three left ended at once.
C27_Witness ==
    /\ cluster.members = 1..3
    /\ {e.by : e \in cluster.removed} = {"cleanup", "hook"}
    /\ \E p \in Passes :
          /\ cluster.pass[p].pc = "done"
          /\ Len(cluster.pass[p].nodes) = 3

(***************************************************************************)
(* C28, C29: cancellation                                                  *)
(***************************************************************************)

\* C28: an attempt whose context is done while it waits for the propagation
\* of the validation record ends there with the context's error: it calls
\* neither Accept nor WaitAuthorization nor finalize and leaves the cert
\* cache, the validation records and the CA's orders as they are.
C28_WaitCancellable ==
    [][\A r \in Reqs :
          (req[r].pc = "wait" /\ req[r].ctxDone /\ req'[r] # req[r]) =>
             /\ req'[r].pc \in {"sleep", "done"}
             /\ req'[r].failed
             /\ req'[r].encoded = NilBytes
             /\ req'[r].pc = "done" =>
                   /\ req'[r].status = 500
                   /\ req'[r].err = "context canceled"
                   /\ req'[r].out = NilBytes
             /\ cache' = cache
             /\ validation' = validation
             /\ orders' = orders]_vars

\* C28 witness: the third attempt of a call was cancelled in its propagation
\* wait and the call returned the context's error.
C28_Witness ==
    \E r \in Reqs :
        /\ req[r].pc = "done"
        /\ req[r].ctxDone
        /\ req[r].status = 500
        /\ req[r].err = "context canceled"
        /\ req[r].order # 0

\* C29: once the context of a RequestCert call is done, the call begins no
\* back-off sleep and no further attempt, and what it returns is an error.
C29_CancelBounds ==
    [][\A r \in Reqs :
          req[r].ctxDone =>
             /\ ~(req[r].pc # "sleep" /\ req'[r].pc = "sleep")
             /\ ~(req[r].pc = "sleep" /\ req'[r].pc = "check")
             /\ (req[r].pc # "done" /\ req'[r].pc = "done") => req'[r].status = 500]_vars

\* C30: what is written through the File of a Create and persisted by Close
\* or Sync is what a later Open of the same path reads back: every row holds
\* exactly the bytes its writer wrote, a File from Open holds the row's bytes
\* and its Reads return them in order up to io.EOF.  Closing a File that is
\* not modified leaves the table as it is, closing a modified one stores its
\* buffer, and a Write on a File from Open fails and changes neither the
\* table nor the File's buffer.
C30_RoundTrip ==
    /\ [](\A path \in DOMAIN fs.table : fs.table[path].data = fs.table[path].by)
    /\ [](\A h \in FsHandles :
             LET f == fs.file[h] IN
             (f.open /\ f.mode = O_RDONLY) =>
                 /\ ~f.modified
                 /\ f.wrote = <<>>
                 /\ f.data = f.src
                 /\ f.got = SubSeq(f.src, 1, f.offset)
                 /\ f.eof => f.got = f.src)
    /\ [][\A h \in FsHandles :
             LET f == fs.file[h]
                 g == fs'.file[h]
             IN  /\ (f.open /\ ~g.open /\ ~f.modified) => fs'.table = fs.table
                 /\ (f.open /\ ~g.open /\ f.modified) =>
                        fs'.table = [fs.table EXCEPT ![f.name].data = f.data,
                                                     ![f.name].by = f.wrote]
                 /\ (f.open /\ g.open /\ g.err # f.err) =>
                        /\ f.mode = O_RDONLY
                        /\ fs'.table = fs.table
                        /\ g = [f EXCEPT !.err = g.err]]_vars

\* C30 witness: a File from Open whose Write was refused has read the two
\* bytes another File, from Create, wrote and closed, and has met io.EOF.
C30_Witness ==
    \E h \in FsHandles :
        LET f == fs.file[h] IN
        /\ f.open
        /\ f.mode = O_RDONLY
        /\ f.err = "file not open for writing"
        /\ f.eof
        /\ f.got = <<1, 2>>
        /\ fs.table[f.name].data = <<1, 2>>
        /\ \A k \in FsHandles : ~fs.file[k].modified

\* C31: on a File of a directory, the root included, the Readdir calls with
\* count > 0 return, chunk after chunk and in path order, the names of the
\* directory's direct children and of nothing else, each chunk of at most
\* count names; a call returns io.EOF exactly when it returns no name, and
\* then every direct child has been listed; Readdir(0) returns all the
\* children not yet listed and a nil error.
C31_ReaddirPaging ==
    \A h \in FsHandles :
        LET f == fs.file[h]
            children == SelectSeq(ByPath, LAMBDA path :
                            /\ path \in DOMAIN fs.table
                            /\ path # f.name
                            /\ Dir(path) = f.name)
            names == [n \in 1..Len(children) |-> Base(children[n])]
        IN  (f.open /\ f.isDir) =>
                /\ f.offset <= Len(names)
                /\ f.listed = SubSeq(names, 1, f.offset)
                /\ f.rd.count > 0 =>
                       /\ Len(f.rd.infos) <= f.rd.count
                       /\ f.rd.err = "EOF" <=> f.rd.infos = <<>>
                       /\ f.rd.err = "EOF" => f.listed = names
                /\ f.rd.count = 0 =>
                       /\ f.rd.err = ""
                       /\ f.rd.infos = SubSeq(names, f.offset + 1, Len(names))

\* path lies in the subtree below dir
Under(path, dir) ==
    path # dir /\ HasPrefix(path, IF dir = "/" THEN "/" ELSE dir \o "/")

\* C32: a Remove of an existing file or of a directory without children
\* succeeds and Stat then reports that the path does not exist; a Remove of
\* a directory that has children fails and changes no entry; after
\* RemoveAll(p) neither p nor any path below p is left and every other
\* entry is as it was.
C32_Removal ==
    [][LET name == fs'.call.name
           children == {path \in DOMAIN fs.table : path # name /\ Dir(path) = name}
       IN  /\ (fs'.call.op = "Remove" /\ name \in DOMAIN fs.table) =>
                  IF fs.table[name].is_dir /\ children # {}
                  THEN fs'.call.err # "" /\ fs'.table = fs.table
                  ELSE /\ fs'.call.err = ""
                       /\ Stat(fs'.table, name).err # ""
           /\ fs'.call.op = "RemoveAll" =>
                  /\ \A path \in DOMAIN fs'.table : path # name /\ ~Under(path, name)
                  /\ \A path \in DOMAIN fs.table :
                         (path # name /\ ~Under(path, name)) =>
                             path \in DOMAIN fs'.table /\ fs'.table[path] = fs.table[path]]_vars

\* C33 as stated: a Rename of a path that does not exist fails and changes
\* nothing; after a Rename that succeeds Stat(old) reports that old does
\* not exist, new holds the row old held (kind and data), and every other
\* entry is as it was.
C33_RenameAsStated ==
    [][fs'.call.op = "Rename" =>
          LET old == fs'.call.name
              new == fs'.call.to
          IN  /\ old \notin DOMAIN fs.table =>
                     fs'.call.err # "" /\ fs'.table = fs.table
              /\ (old \in DOMAIN fs.table /\ fs'.call.err = "") =>
                     /\ Stat(fs'.table, old).err # ""
                     /\ Stat(fs'.table, new).err = ""
                     /\ fs'.table[new] = fs.table[old]
                     /\ \A path \in (DOMAIN fs.table \cup DOMAIN fs'.table) \ {old, new} :
                            /\ path \in DOMAIN fs.table
                            /\ path \in DOMAIN fs'.table
                            /\ fs'.table[path] = fs.table[path]]_vars

\* C33, amended: the same for a Rename whose two names are different paths
\* once cleaned; a Rename of an existing path to itself succeeds and
\* changes nothing.
C33_Rename ==
    [][fs'.call.op = "Rename" =>
          LET old == fs'.call.name
              new == fs'.call.to
          IN  /\ old \notin DOMAIN fs.table =>
                     fs'.call.err # "" /\ fs'.table = fs.table
              /\ (old \in DOMAIN fs.table /\ fs'.call.err = "" /\ new = old) =>
                     fs'.table = fs.table
              /\ (old \in DOMAIN fs.table /\ fs'.call.err = "" /\ new # old) =>
                     /\ Stat(fs'.table, old).err # ""
                     /\ Stat(fs'.table, new).err = ""
                     /\ fs'.table[new] = fs.table[old]
                     /\ \A path \in (DOMAIN fs.table \cup DOMAIN fs'.table) \ {old, new} :
                            /\ path \in DOMAIN fs.table
                            /\ path \in DOMAIN fs'.table
                            /\ fs'.table[path] = fs.table[path]]_vars

\* C33 witness: the file /f, holding two bytes, has been renamed to /a/b
\* beside another entry.
C33_Witness ==
    /\ fs.call = [op |-> "Rename", name |-> "/f", to |-> "/a/b", err |-> ""]
    /\ "/f" \notin DOMAIN fs.table
    /\ "/a" \in DOMAIN fs.table
    /\ fs.table["/a/b"] = [data |-> <<1, 2>>, is_dir |-> FALSE, by |-> <<1, 2>>]

\* C34: after a MkdirAll(p) that succeeds, p and every path above p exist
\* and are directories, every entry that existed before is as it was, and
\* a second MkdirAll(p) succeeds and changes nothing.
C34_MkdirAll ==
    [][(fs'.call.op = "MkdirAll" /\ fs'.call.err = "") =>
          LET name == fs'.call.name IN
          /\ \A path \in {Cleaned[x] : x \in DOMAIN Cleaned} :
                 (path = name \/ Under(name, path)) =>
                     Stat(fs'.table, path) = [err |-> "", isDir |-> TRUE]
          /\ \A path \in DOMAIN fs.table :
                 path \in DOMAIN fs'.table /\ fs'.table[path] = fs.table[path]
          /\ MkdirAll(fs'.table, name) = [err |-> "", table |-> fs'.table]]_vars

\* C38: whatever calls of Create, Mkdir, MkdirAll, Remove, RemoveAll and
\* Rename have been made, every entry but the root has a parent path that
\* is stored and is a directory.
C38_TreeInvariant ==
    \A path \in DOMAIN fs.table :
        path # "/" => Stat(fs.table, Dir(path)) = [err |-> "", isDir |-> TRUE]

\* C35: while an attempt that stored its challenge key has called Accept
\* and waits for the CA to settle the authorization, the TXT value served
\* under "_acme-challenge." + baseName + "." is the key this attempt
\* stored, whatever the other attempts do meanwhile.
C35_TokenIntegrity ==
    \A r \in Reqs :
        (req[r].pc = "waitauthz" /\ ~req[r].failed) =>
            GetValidationRecord(validation, ChallengeName(req[r].baseName))
                = ChallengeKey(req[r].order, req[r].k)

C37_RejectedNoEffect ==
    [][\A r \in Reqs :
          (req[r].pc = "idle" /\ req'[r].pc = "done"
              /\ req'[r].status \in {400, 500} /\ req'[r].via # "cert") =>
             /\ cache' = cache
             /\ validation' = validation
             /\ orders' = orders]_vars

\* C37 witness: a CSR posted to /cert-from-csr has been refused with 400
\* while the cache holds a row, a validation record is stored and an order
\* has been opened by an earlier call.
C37_Witness ==
    \E r \in Reqs :
        /\ req[r].pc = "done"
        /\ req[r].status = 400
        /\ req[r].via = "cert-from-csr"
        /\ DOMAIN cache # {}
        /\ DOMAIN validation # {}
        /\ orders > 0

====
